---- MODULE Spec2Model ----
(***************************************************************************)
(* Span lifecycle bookkeeping of the three telemetry hook variants         *)
(*   SingleTrace       src/src/telemetryHooksSingleTrace.ts                *)
(*   ByAgent           src/src/telemetryHooksByAgent.ts                    *)
(*   IndividualTraces  src/unnamed/part_000                                *)
(* together with the entry points (main) that construct a tracker, feed it *)
(* hook events while the query stream runs, and call cleanup() in finally. *)
(*                                                                         *)
(* A span handle is its index in the log `spans`; a Context made by        *)
(* trace.setSpan(context.active(), span) is identified with that index,    *)
(* and 0 stands for "no parent context" (a new root trace).                *)
(***************************************************************************)
EXTENDS Integers, Sequences, FiniteSets, TLC

VARIABLES variant, pc, spans, agentSpans, toolSpans, currentAgentId,
          result, path, dupStart, telemetry, fn

vars == <<variant, pc, spans, agentSpans, toolSpans, currentAgentId,
          result, path, dupStart, telemetry, fn>>

(* ------------------------------ bounds --------------------------------- *)
MaxAgents == 2
MaxTools == 1
MaxStarted == 3
MaxHookSpans == 1
MaxInits == 4

AgentIds == 1..MaxAgents
ToolIds == 1..MaxTools
NoId == 0

Variants == {"SingleTrace", "ByAgent", "IndividualTraces"}

(* ------------------------- JavaScript values --------------------------- *)
(* A value is a record: t its type; for a string, txt names its text, len   *)
(* is the number of characters of that text it holds (from the start), and *)
(* cut tells whether the "... [truncated]" marker follows them.            *)
MAX_ATTRIBUTE_LENGTH == 10000
StatusMessageLength == 256
TruncatedMarkerLength == 15

Str(txt, len) == [t |-> "string", txt |-> txt, len |-> len, cut |-> FALSE]
Undefined == [t |-> "undefined", txt |-> "", len |-> 0, cut |-> FALSE]
NumberValue == [t |-> "number", txt |-> "500", len |-> 0, cut |-> FALSE]
PlainObject ==
  [t |-> "object", txt |-> "{\"command\":\"ls\"}", len |-> 16, cut |-> FALSE]
CircularObject == [t |-> "circular", txt |-> "", len |-> 0, cut |-> FALSE]

Returned(v) == [threw |-> FALSE, val |-> v]
Thrown == [threw |-> TRUE, val |-> Undefined]

Truthy(v) == ~(v.t = "undefined" \/ (v.t = "string" /\ v.len = 0))

\* value.length of a string
length(v) == v.len + (IF v.cut THEN TruncatedMarkerLength ELSE 0)

truncateAttributeOffByOne(value, maxLength) ==
  IF value.t = "string"
  THEN IF value.len < maxLength
       THEN Returned(value)
       ELSE Returned([value EXCEPT !.len = maxLength, !.cut = TRUE])
  ELSE Thrown

\* value.length <= maxLength ? value : value.substring(0, maxLength) + marker.
\* Reading .length of undefined throws; a number has no .length, the
\* comparison with undefined is false, and .substring is not a function.
truncateAttribute(value, maxLength) ==
  IF value.t = "string"
  THEN IF value.len <= maxLength
       THEN Returned(value)
       ELSE Returned([value EXCEPT !.len = maxLength, !.cut = TRUE])
  ELSE Thrown

\* JSON.stringify: undefined yields undefined, a circular structure throws.
JSONstringify(v) ==
  CASE v.t = "undefined" -> Returned(Undefined)
    [] v.t = "circular" -> Thrown
    [] v.t = "string" -> Returned(Str(v.txt, v.len + 2))
    [] OTHER -> Returned(Str(v.txt, v.len))

\* String(v)
StringOf(v) ==
  CASE v.t = "undefined" -> Str("undefined", 9)
    [] v.t = "circular" -> Str("[object Object]", 15)
    [] v.t = "object" -> Str("[object Object]", 15)
    [] OTHER -> Str(v.txt, v.len)

\* try { n = JSON.stringify(x).length } catch { n = String(x).length }
\* (.length of the undefined that JSON.stringify(undefined) returns throws)
responseSize(tool_response) ==
  IF JSONstringify(tool_response).threw
     \/ JSONstringify(tool_response).val.t # "string"
  THEN StringOf(tool_response).len
  ELSE JSONstringify(tool_response).val.len

\* try { s = JSON.stringify(x) } catch { s = String(x) }
toolInputStr(tool_input) ==
  IF JSONstringify(tool_input).threw
  THEN StringOf(tool_input)
  ELSE JSONstringify(tool_input).val

(* ------------------------------- spans --------------------------------- *)
NoMessage == Str("", 0)
OrphanedSpan == Str("Orphaned span", 13)
OrphanedAgentTrace == Str("Orphaned agent trace", 20)
ToolExecutionFailed == Str("Tool execution failed", 21)
UnknownError == Str("Unknown error", 13)

\* tracer.startSpan(name, undefined, parentContext)
startSpan(kind, name, key, parentContext) ==
  [kind |-> kind, name |-> name, key |-> key, parent |-> parentContext,
   status |-> "UNSET", message |-> NoMessage, ends |-> 0, endedBy |-> "none",
   success |-> "unset", error |-> Undefined, exception |-> FALSE,
   agentId |-> NoId, input |-> Undefined, prompt |-> Undefined,
   sweepOrder |-> 0]

setStatus(s, code, message) == [s EXCEPT !.status = code, !.message = message]

end(s, by) == [s EXCEPT !.ends = @ + 1, !.endedBy = by]

\* cleanup() calls end() on one span after another: sweepOrder is the place
\* of a span's end() among the end() calls of cleanup(), 0 for a span that
\* cleanup() has not ended.
nextInSweep(sp) ==
  1 + Cardinality({i \in 1..Len(sp) : sp[i].sweepOrder > 0})

endInSweep(sp, i, by) ==
  [sp EXCEPT ![i] = [end(@, by) EXCEPT !.sweepOrder = nextInSweep(sp)]]

(* -------------------- Map<string, ...> (insertion order) ---------------- *)
\* A Map is the sequence of its entries in insertion order.
MapHas(m, k) == \E i \in 1..Len(m) : m[i].k = k

MapGet(m, k) == m[CHOOSE i \in 1..Len(m) : m[i].k = k].span

MapSetAppending(m, k, s) == Append(m, [k |-> k, span |-> s])

\* set() on an existing key replaces the value and keeps the key's position.
MapSet(m, k, s) ==
  IF MapHas(m, k)
  THEN [i \in 1..Len(m) |-> IF m[i].k = k THEN [k |-> k, span |-> s] ELSE m[i]]
  ELSE Append(m, [k |-> k, span |-> s])

MapClear(m, k) == << >>

MapDeleteKeeping(m, k) == m

MapDelete(m, k) == SelectSeq(m, LAMBDA e : e.k # k)

(* --------------------------- bounding guards --------------------------- *)
\* Spans started by the constructor, per variant.
constructed == CASE variant = "SingleTrace" -> 2
                 [] variant = "ByAgent" -> 1
                 [] OTHER -> 0

\* A handler may start one more span.
CanStart == Len(spans) - constructed < MaxStarted

\* A handler may start one more point-in-time span.
CanStartHook ==
  /\ CanStart
  /\ Cardinality({i \in 1..Len(spans) : spans[i].kind = "hook"}) < MaxHookSpans

(* ------------------------------ inputs --------------------------------- *)
AgentTypes == {"code-reviewer"}
ToolInputs == {PlainObject, Undefined}
ToolResponses == {PlainObject, Undefined}
Prompts == {Str("fix the bugs", 12), Undefined}
\* An error text (here one that reads like the sweep's own message), no error
\* field, and a non-string error.
Errors == {Str("Orphaned span", 13), Undefined, NumberValue}

\* Payloads around the attribute cap, for the handlers that store a
\* payload-derived attribute: strings below, at and above the cap, a string
\* and an object whose serialization is above it, an object that cannot be
\* serialized, an empty string, and an error longer than a status message
\* may be.
LongPrompts ==
  {Str("prompt p0", 12), Str("prompt p1", MAX_ATTRIBUTE_LENGTH),
   Str("prompt p2", MAX_ATTRIBUTE_LENGTH + 1), Undefined}
LongToolInputs ==
  {PlainObject, CircularObject,
   Str("input i1", MAX_ATTRIBUTE_LENGTH - 2),
   Str("input i2", MAX_ATTRIBUTE_LENGTH - 1),
   [PlainObject EXCEPT !.txt = "{\"content\":...}",
                       !.len = MAX_ATTRIBUTE_LENGTH + 5000]}
LongErrors ==
  {Str("", 0), Str("error e1", StatusMessageLength + 1),
   Str("error e2", MAX_ATTRIBUTE_LENGTH),
   Str("error e3", MAX_ATTRIBUTE_LENGTH + 1)}

\* dupStart records which registries ("agent", "tool") have had an entry
\* overwritten by a start for an id that was still a key.
\* What one call leaves behind: result is how it completed ("continue" when
\* the handler's promise resolved to { continue: true }, "rejected" when the
\* handler threw), path is the branch it took ("skip": hook_event_name did
\* not match, "absent": the id was not a key of the registry, "body": the
\* handler's body ran).
Handled(res, branch) == result' = res /\ path' = branch

\* if (input.hook_event_name === "<kind>") is false: return { continue: true }
NotMatching ==
  /\ Handled("continue", "skip")
  /\ UNCHANGED <<fn, telemetry, variant, pc, spans, agentSpans, toolSpans,
                 currentAgentId, dupStart>>

(* ------------------------- the cleanup sweep --------------------------- *)
\* for (const [id, data] of map) { ...; map.delete(id) }: deleting the entry
\* being visited does not disturb a Map iterator, so every entry is visited,
\* in insertion order.
forOfSkipping(m) == SelectSeq(m, LAMBDA e : \E i \in 1..Len(m) :
                                     m[i] = e /\ i % 2 = 1)

forOfRevisiting(m) == m \o m

forOfDeleting(m) == m

RECURSIVE endOrphansNoStatus(_, _, _)
endOrphansNoStatus(sp, visited, message) ==
  IF visited = << >> THEN sp
  ELSE endOrphansNoStatus([sp EXCEPT ![Head(visited).span] = end(@, "sweep")],
                          Tail(visited), message)

\* The spans of the visited entries get status ERROR with the given message
\* and are ended.
RECURSIVE endOrphans(_, _, _)
endOrphans(sp, visited, message) ==
  IF visited = << >> THEN sp
  ELSE endOrphans(endInSweep([sp EXCEPT ![Head(visited).span] =
                                   setStatus(@, "ERROR", message)],
                             Head(visited).span, "sweep"),
                  Tail(visited), message)

\* What is left of the map once the visited entries have been deleted.
afterSweep(m, visited) ==
  SelectSeq(m, LAMBDA e : \A i \in 1..Len(visited) : visited[i] # e)

(* ======================== telemetry module ============================= *)
(* The module state of telemetry.ts: sdk and loggerProvider hold 0 for     *)
(* null or the number of the instance they refer to; sdks and providers    *)
(* count the NodeSDK instances started and the LoggerProvider instances    *)
(* created, sdkShutdowns and loggerShutdowns the shutdown() calls made on  *)
(* them.                                                                   *)
NoTelemetry ==
  [sdk |-> 0, loggerProvider |-> 0, sdks |-> 0, providers |-> 0,
   sdkShutdowns |-> 0, loggerShutdowns |-> 0]

\* Where a call may fail: a constructor or sdk.start() in initTelemetry, one
\* of the two awaited shutdown() calls in shutdownTelemetry.
InitFailures == {"none", "exporter", "provider", "sdk", "start"}
ShutdownFailures == {"none", "loggerProvider", "sdk"}

\* What a call leaves: the module state and whether it threw.
Left(t, threw) == [t |-> t, threw |-> threw]

isTelemetryInitialized(t) == t.sdk # 0 /\ t.loggerProvider # 0

initTelemetryUnguarded(t, enabled, failAt) ==
  IF ~enabled THEN Left(t, FALSE)
  ELSE IF failAt \in {"exporter", "provider"}
  THEN Left([t EXCEPT !.sdk = 0, !.loggerProvider = 0], TRUE)
  ELSE IF failAt = "sdk"
  THEN Left([t EXCEPT !.providers = @ + 1, !.sdk = 0, !.loggerProvider = 0],
            TRUE)
  ELSE IF failAt = "start"
  THEN Left([t EXCEPT !.providers = @ + 1, !.sdks = @ + 1,
                      !.sdk = 0, !.loggerProvider = 0], TRUE)
  ELSE Left([t EXCEPT !.providers = @ + 1, !.sdks = @ + 1,
                      !.sdk = t.sdks + 1,
                      !.loggerProvider = t.providers + 1], FALSE)

initTelemetryKeepingState(t, enabled, failAt) ==
  IF ~enabled \/ t.sdk # 0 THEN Left(t, FALSE)
  ELSE IF failAt \in {"exporter", "provider"}
  THEN Left(t, TRUE)
  ELSE IF failAt = "sdk"
  THEN Left([t EXCEPT !.providers = @ + 1,
                      !.loggerProvider = t.providers + 1], TRUE)
  ELSE IF failAt = "start"
  THEN Left([t EXCEPT !.providers = @ + 1, !.sdks = @ + 1,
                      !.sdk = t.sdks + 1,
                      !.loggerProvider = t.providers + 1], TRUE)
  ELSE Left([t EXCEPT !.providers = @ + 1, !.sdks = @ + 1,
                      !.sdk = t.sdks + 1,
                      !.loggerProvider = t.providers + 1], FALSE)

\* if (!isTelemetryEnabled()) return; if (sdk !== null) return;
\* try { exporters; loggerProvider = new LoggerProvider(..);
\*       sdk = new NodeSDK(..); sdk.start() }
\* catch { sdk = null; loggerProvider = null; throw }
initTelemetry(t, enabled, failAt) ==
  IF ~enabled \/ t.sdk # 0 THEN Left(t, FALSE)
  ELSE IF failAt \in {"exporter", "provider"}
  THEN Left([t EXCEPT !.sdk = 0, !.loggerProvider = 0], TRUE)
  ELSE IF failAt = "sdk"
  THEN Left([t EXCEPT !.providers = @ + 1, !.sdk = 0, !.loggerProvider = 0],
            TRUE)
  ELSE IF failAt = "start"
  THEN Left([t EXCEPT !.providers = @ + 1, !.sdks = @ + 1,
                      !.sdk = 0, !.loggerProvider = 0], TRUE)
  ELSE Left([t EXCEPT !.providers = @ + 1, !.sdks = @ + 1,
                      !.sdk = t.sdks + 1,
                      !.loggerProvider = t.providers + 1], FALSE)

shutdownTelemetryUnguarded(t, failAt) ==
  IF failAt = "loggerProvider"
  THEN Left([t EXCEPT !.loggerShutdowns = @ + 1,
                      !.sdk = 0, !.loggerProvider = 0], TRUE)
  ELSE IF failAt = "sdk"
  THEN Left([t EXCEPT !.loggerShutdowns = @ + 1, !.sdkShutdowns = @ + 1,
                      !.sdk = 0, !.loggerProvider = 0], TRUE)
  ELSE Left([t EXCEPT !.loggerShutdowns = @ + 1, !.sdkShutdowns = @ + 1,
                      !.sdk = 0, !.loggerProvider = 0], FALSE)

shutdownTelemetryKeepingState(t, failAt) ==
  IF t.sdk = 0 /\ t.loggerProvider = 0 THEN Left(t, FALSE)
  ELSE LET lp == IF t.loggerProvider # 0 THEN 1 ELSE 0
           sd == IF t.sdk # 0 THEN 1 ELSE 0
       IN IF failAt = "loggerProvider" /\ lp = 1
          THEN Left([t EXCEPT !.loggerShutdowns = @ + 1], TRUE)
          ELSE IF failAt = "sdk" /\ sd = 1
          THEN Left([t EXCEPT !.loggerShutdowns = @ + lp,
                              !.sdkShutdowns = @ + 1,
                              !.loggerProvider = 0], TRUE)
          ELSE Left([t EXCEPT !.loggerShutdowns = @ + lp,
                              !.sdkShutdowns = @ + sd,
                              !.sdk = 0, !.loggerProvider = 0], FALSE)

\* if (!sdk && !loggerProvider) return;
\* try { if (loggerProvider) { await loggerProvider.shutdown();
\*                             loggerProvider = null }
\*       if (sdk) { await sdk.shutdown(); sdk = null } }
\* catch { sdk = null; loggerProvider = null; throw }
\* A failure can only come from a shutdown() that is actually called.
shutdownTelemetry(t, failAt) ==
  IF t.sdk = 0 /\ t.loggerProvider = 0 THEN Left(t, FALSE)
  ELSE LET lp == IF t.loggerProvider # 0 THEN 1 ELSE 0
           sd == IF t.sdk # 0 THEN 1 ELSE 0
       IN IF failAt = "loggerProvider" /\ lp = 1
          THEN Left([t EXCEPT !.loggerShutdowns = @ + 1,
                              !.sdk = 0, !.loggerProvider = 0], TRUE)
          ELSE IF failAt = "sdk" /\ sd = 1
          THEN Left([t EXCEPT !.loggerShutdowns = @ + lp,
                              !.sdkShutdowns = @ + 1,
                              !.sdk = 0, !.loggerProvider = 0], TRUE)
          ELSE Left([t EXCEPT !.loggerShutdowns = @ + lp,
                              !.sdkShutdowns = @ + sd,
                              !.sdk = 0, !.loggerProvider = 0], FALSE)

\* No pure function is being applied.
NoCall == [name |-> "none", args |-> << >>, ret |-> "none"]

(* ======================= SingleTrace variant =========================== *)
\* rootSpan is span 1 (ended at construction), sessionSpan is span 2.
rootSpanSingleTrace == 1
sessionSpanSingleTrace == 2

InitSingleTrace ==
  /\ variant = "SingleTrace"
  /\ spans = << end(startSpan("root", "agent.root", NoId, 0), "constructor"),
                startSpan("session", "agent.session", NoId,
                          rootSpanSingleTrace) >>
  /\ agentSpans = << >>
  /\ toolSpans = << >>
  /\ currentAgentId = NoId

\* The prompt attribute is set on sessionSpan, before the hook's own span
\* is started.
UserPromptSubmitSingleTrace(match, prompt) ==
  /\ variant = "SingleTrace" /\ pc = "query"
  /\ IF ~match THEN NotMatching
     ELSE LET t == truncateAttribute(prompt, MAX_ATTRIBUTE_LENGTH)
          IN IF t.threw
             THEN /\ Handled("rejected", "body")
                  /\ UNCHANGED <<fn, telemetry, variant, pc, spans, agentSpans,
                                 toolSpans, currentAgentId, dupStart>>
             ELSE /\ CanStartHook
                  /\ spans' = Append(
                       [spans EXCEPT ![sessionSpanSingleTrace].prompt = t.val],
                       end(startSpan("hook", "hook.user_prompt_submit", NoId,
                                     sessionSpanSingleTrace), "handler"))
                  /\ Handled("continue", "body")
                  /\ UNCHANGED <<fn, telemetry, variant, pc, agentSpans,
                                 toolSpans, currentAgentId, dupStart>>

SubagentStartUnderRoot(match, agent_id, agent_type) ==
  /\ variant = "SingleTrace" /\ pc = "query"
  /\ IF ~match THEN NotMatching
     ELSE /\ CanStart
          /\ spans' = Append(spans, startSpan("agent", agent_type, agent_id,
                                              rootSpanSingleTrace))
          /\ agentSpans' = MapSet(agentSpans, agent_id, Len(spans) + 1)
          /\ dupStart' = dupStart \cup (IF MapHas(agentSpans, agent_id)
                                        THEN {"agent"} ELSE {})
          /\ Handled("continue", "body")
          /\ UNCHANGED <<fn, telemetry, variant, pc, toolSpans,
                         currentAgentId>>

SubagentStartSingleTrace(match, agent_id, agent_type) ==
  /\ variant = "SingleTrace" /\ pc = "query"
  /\ IF ~match THEN NotMatching
     ELSE /\ CanStart
          /\ spans' = Append(spans, startSpan("agent", agent_type, agent_id,
                                              sessionSpanSingleTrace))
          /\ agentSpans' = MapSet(agentSpans, agent_id, Len(spans) + 1)
          /\ dupStart' = dupStart \cup (IF MapHas(agentSpans, agent_id)
                                        THEN {"agent"} ELSE {})
          /\ Handled("continue", "body")
          /\ UNCHANGED <<fn, telemetry, variant, pc, toolSpans,
                         currentAgentId>>

SubagentStopReparenting(match, agent_id) ==
  /\ variant = "SingleTrace" /\ pc = "query"
  /\ IF ~match THEN NotMatching
     ELSE /\ IF MapHas(agentSpans, agent_id)
             THEN LET s == MapGet(agentSpans, agent_id)
                  IN /\ spans' = [i \in 1..Len(spans) |->
                           IF i = s
                           THEN end(setStatus(spans[i], "OK", NoMessage),
                                    "handler")
                           ELSE IF spans[i].parent = s
                                THEN [spans[i] EXCEPT
                                        !.parent = sessionSpanSingleTrace]
                                ELSE spans[i]]
                     /\ agentSpans' = MapDelete(agentSpans, agent_id)
             ELSE UNCHANGED <<spans, agentSpans>>
          /\ Handled("continue", IF MapHas(agentSpans, agent_id)
                                 THEN "body" ELSE "absent")
          /\ UNCHANGED <<fn, telemetry, variant, pc, toolSpans, currentAgentId,
                         dupStart>>

SubagentStopSingleTrace(match, agent_id) ==
  /\ variant = "SingleTrace" /\ pc = "query"
  /\ IF ~match THEN NotMatching
     ELSE /\ IF MapHas(agentSpans, agent_id)
             THEN LET s == MapGet(agentSpans, agent_id)
                  IN /\ spans' = [spans EXCEPT ![s] =
                           end(setStatus(@, "OK", NoMessage), "handler")]
                     /\ agentSpans' = MapDelete(agentSpans, agent_id)
             ELSE UNCHANGED <<spans, agentSpans>>
          /\ Handled("continue", IF MapHas(agentSpans, agent_id)
                                 THEN "body" ELSE "absent")
          /\ UNCHANGED <<fn, telemetry, variant, pc, toolSpans, currentAgentId,
                         dupStart>>

\* The parent is the context of the last entry of agentSpans, if any;
\* input.agent_id is not read.
parentContextSingleTrace(agentEntries) ==
  IF Len(agentEntries) > 0
  THEN agentEntries[Len(agentEntries)].span
  ELSE sessionSpanSingleTrace

PreToolUseSingleTrace(match, tool_use_id, agent_id, tool_input) ==
  /\ variant = "SingleTrace" /\ pc = "query"
  /\ IF ~match THEN NotMatching
     ELSE LET parentContext == parentContextSingleTrace(agentSpans)
              span == startSpan("tool", "tool", tool_use_id, parentContext)
              t == truncateAttribute(toolInputStr(tool_input),
                                     MAX_ATTRIBUTE_LENGTH)
          IN /\ CanStart
             /\ IF t.threw
                THEN /\ spans' = Append(spans, span)
                     /\ Handled("rejected", "body")
                     /\ UNCHANGED <<toolSpans, dupStart>>
                ELSE /\ spans' = Append(spans,
                                        [span EXCEPT !.input = t.val])
                     /\ toolSpans' = MapSet(toolSpans, tool_use_id,
                                            Len(spans) + 1)
                     /\ dupStart' = dupStart \cup
                          (IF MapHas(toolSpans, tool_use_id)
                           THEN {"tool"} ELSE {})
                     /\ Handled("continue", "body")
             /\ UNCHANGED <<fn, telemetry, variant, pc, agentSpans,
                            currentAgentId>>

PostToolUseSingleTrace(match, tool_use_id, tool_response) ==
  /\ variant = "SingleTrace" /\ pc = "query"
  /\ IF ~match THEN NotMatching
     ELSE /\ IF MapHas(toolSpans, tool_use_id)
             THEN LET s == MapGet(toolSpans, tool_use_id)
                  IN /\ spans' = [spans EXCEPT ![s] =
                           end(setStatus([@ EXCEPT !.success = "true"],
                                         "OK", NoMessage), "handler")]
                     /\ toolSpans' = MapDelete(toolSpans, tool_use_id)
             ELSE UNCHANGED <<spans, toolSpans>>
          /\ Handled("continue", IF MapHas(toolSpans, tool_use_id)
                                 THEN "body" ELSE "absent")
          /\ UNCHANGED <<fn, telemetry, variant, pc, agentSpans,
                         currentAgentId, dupStart>>

\* errorMessage = input.error || "Unknown error"; tool.success is set before
\* truncateAttribute(errorMessage) is evaluated, so a throw leaves the span
\* annotated, open and registered.
PostToolUseFailureSingleTrace(match, tool_use_id, error) ==
  /\ variant = "SingleTrace" /\ pc = "query"
  /\ IF ~match THEN NotMatching
     ELSE LET errorMessage == IF Truthy(error) THEN error ELSE UnknownError
              t == truncateAttribute(errorMessage, MAX_ATTRIBUTE_LENGTH)
              m == truncateAttribute(errorMessage, StatusMessageLength)
          IN /\ IF MapHas(toolSpans, tool_use_id)
                THEN LET s == MapGet(toolSpans, tool_use_id)
                     IN IF t.threw
                        THEN /\ spans' = [spans EXCEPT ![s].success = "false"]
                             /\ Handled("rejected", "body")
                             /\ UNCHANGED toolSpans
                        ELSE /\ spans' = [spans EXCEPT ![s] =
                                  end(setStatus([@ EXCEPT !.success = "false",
                                                          !.error = t.val,
                                                          !.exception = TRUE],
                                                "ERROR", m.val), "handler")]
                             /\ toolSpans' = MapDelete(toolSpans, tool_use_id)
                             /\ Handled("continue", "body")
                ELSE /\ Handled("continue", "absent")
                     /\ UNCHANGED <<spans, toolSpans>>
             /\ UNCHANGED <<fn, telemetry, variant, pc, agentSpans,
                            currentAgentId, dupStart>>

PointInTimeLeftOpen(kind, match, name, parentContext, code) ==
  /\ pc = "query"
  /\ IF ~match THEN NotMatching
     ELSE /\ CanStartHook
          /\ spans' = Append(spans,
               setStatus(startSpan("hook", name, NoId, parentContext),
                         code, NoMessage))
          /\ Handled("continue", "body")
          /\ UNCHANGED <<fn, telemetry, variant, pc, agentSpans, toolSpans,
                         currentAgentId, dupStart>>

\* SessionStart, SessionEnd, Notification, PermissionRequest, PreCompact,
\* Stop and Setup: start a span under the session context and end it at once.
PointInTime(kind, match, name, parentContext, code) ==
  /\ pc = "query"
  /\ IF ~match THEN NotMatching
     ELSE /\ CanStartHook
          /\ spans' = Append(spans,
               end(setStatus(startSpan("hook", name, NoId, parentContext),
                             code, NoMessage), "handler"))
          /\ Handled("continue", "body")
          /\ UNCHANGED <<fn, telemetry, variant, pc, agentSpans, toolSpans,
                         currentAgentId, dupStart>>

SessionStartSingleTrace(match) ==
  /\ variant = "SingleTrace"
  /\ PointInTime("SessionStart", match, "hook.session_start",
                 sessionSpanSingleTrace, "UNSET")

SessionEndSingleTrace(match) ==
  /\ variant = "SingleTrace"
  /\ PointInTime("SessionEnd", match, "hook.session_end",
                 sessionSpanSingleTrace, "UNSET")

NotificationSingleTrace(match) ==
  /\ variant = "SingleTrace"
  /\ PointInTime("Notification", match, "hook.notification",
                 sessionSpanSingleTrace, "UNSET")

PermissionRequestSingleTrace(match) ==
  /\ variant = "SingleTrace"
  /\ PointInTime("PermissionRequest", match, "hook.permission_request",
                 sessionSpanSingleTrace, "UNSET")

PreCompactSingleTrace(match) ==
  /\ variant = "SingleTrace"
  /\ PointInTime("PreCompact", match, "hook.pre_compact",
                 sessionSpanSingleTrace, "UNSET")

StopSingleTrace(match) ==
  /\ variant = "SingleTrace"
  /\ PointInTime("Stop", match, "hook.stop", sessionSpanSingleTrace, "UNSET")

SetupSingleTrace(match) ==
  /\ variant = "SingleTrace"
  /\ PointInTime("Setup", match, "hook.setup", sessionSpanSingleTrace, "UNSET")

(* ========================= ByAgent variant ============================= *)
\* sessionSpan is span 1; the registry agentTraces is held in agentSpans.
sessionSpanByAgent == 1

InitByAgent ==
  /\ variant = "ByAgent"
  /\ spans = << startSpan("session", "session", NoId, 0) >>
  /\ agentSpans = << >>
  /\ toolSpans = << >>
  /\ currentAgentId = NoId

UserPromptSubmitByAgent(match, prompt) ==
  /\ variant = "ByAgent" /\ pc = "query"
  /\ IF ~match THEN NotMatching
     ELSE LET t == truncateAttribute(prompt, MAX_ATTRIBUTE_LENGTH)
          IN IF t.threw
             THEN /\ Handled("rejected", "body")
                  /\ UNCHANGED <<fn, telemetry, variant, pc, spans, agentSpans,
                                 toolSpans, currentAgentId, dupStart>>
             ELSE /\ CanStartHook
                  /\ spans' = Append(
                       [spans EXCEPT ![sessionSpanByAgent].prompt = t.val],
                       end(startSpan("hook", "hook.user_prompt_submit", NoId,
                                     sessionSpanByAgent), "handler"))
                  /\ Handled("continue", "body")
                  /\ UNCHANGED <<fn, telemetry, variant, pc, agentSpans,
                                 toolSpans, currentAgentId, dupStart>>

SubagentStartUnderSession(match, agent_id, agent_type) ==
  /\ variant = "ByAgent" /\ pc = "query"
  /\ IF ~match THEN NotMatching
     ELSE /\ CanStart
          /\ spans' = Append(spans, startSpan("agent", agent_type, agent_id,
                                              sessionSpanByAgent))
          /\ agentSpans' = MapSet(agentSpans, agent_id, Len(spans) + 1)
          /\ currentAgentId' = agent_id
          /\ dupStart' = dupStart \cup (IF MapHas(agentSpans, agent_id)
                                        THEN {"agent"} ELSE {})
          /\ Handled("continue", "body")
          /\ UNCHANGED <<fn, telemetry, variant, pc, toolSpans>>

\* The agent's span is a new root trace: startSpan without a parent context.
SubagentStartByAgent(match, agent_id, agent_type) ==
  /\ variant = "ByAgent" /\ pc = "query"
  /\ IF ~match THEN NotMatching
     ELSE /\ CanStart
          /\ spans' = Append(spans, startSpan("agent", agent_type, agent_id, 0))
          /\ agentSpans' = MapSet(agentSpans, agent_id, Len(spans) + 1)
          /\ currentAgentId' = agent_id
          /\ dupStart' = dupStart \cup (IF MapHas(agentSpans, agent_id)
                                        THEN {"agent"} ELSE {})
          /\ Handled("continue", "body")
          /\ UNCHANGED <<fn, telemetry, variant, pc, toolSpans>>

SubagentStopClearingPointer(match, agent_id) ==
  /\ variant = "ByAgent" /\ pc = "query"
  /\ IF ~match THEN NotMatching
     ELSE /\ IF MapHas(agentSpans, agent_id)
             THEN LET s == MapGet(agentSpans, agent_id)
                  IN /\ spans' = [spans EXCEPT ![s] =
                           end(setStatus(@, "OK", NoMessage), "handler")]
                     /\ agentSpans' = MapDelete(agentSpans, agent_id)
             ELSE UNCHANGED <<spans, agentSpans>>
          /\ currentAgentId' = NoId
          /\ Handled("continue", IF MapHas(agentSpans, agent_id)
                                 THEN "body" ELSE "absent")
          /\ UNCHANGED <<fn, telemetry, variant, pc, toolSpans, dupStart>>

SubagentStopKeepingEntry(match, agent_id) ==
  /\ variant = "ByAgent" /\ pc = "query"
  /\ IF ~match THEN NotMatching
     ELSE /\ IF MapHas(agentSpans, agent_id)
             THEN LET s == MapGet(agentSpans, agent_id)
                  IN /\ spans' = [spans EXCEPT ![s] =
                           end(setStatus(@, "OK", NoMessage), "handler")]
                     /\ currentAgentId' = IF currentAgentId = agent_id
                                          THEN NoId ELSE currentAgentId
                     /\ UNCHANGED agentSpans
             ELSE UNCHANGED <<spans, agentSpans, currentAgentId>>
          /\ Handled("continue", IF MapHas(agentSpans, agent_id)
                                 THEN "body" ELSE "absent")
          /\ UNCHANGED <<fn, telemetry, variant, pc, toolSpans, dupStart>>

SubagentStopByAgent(match, agent_id) ==
  /\ variant = "ByAgent" /\ pc = "query"
  /\ IF ~match THEN NotMatching
     ELSE /\ IF MapHas(agentSpans, agent_id)
             THEN LET s == MapGet(agentSpans, agent_id)
                  IN /\ spans' = [spans EXCEPT ![s] =
                           end(setStatus(@, "OK", NoMessage), "handler")]
                     /\ agentSpans' = MapDelete(agentSpans, agent_id)
                     /\ currentAgentId' = IF currentAgentId = agent_id
                                          THEN NoId ELSE currentAgentId
             ELSE UNCHANGED <<spans, agentSpans, currentAgentId>>
          /\ Handled("continue", IF MapHas(agentSpans, agent_id)
                                 THEN "body" ELSE "absent")
          /\ UNCHANGED <<fn, telemetry, variant, pc, toolSpans, dupStart>>

parentContextFallingBack(agent_id, current, traces) ==
  IF agent_id # NoId /\ MapHas(traces, agent_id)
  THEN MapGet(traces, agent_id)
  ELSE IF current # NoId /\ MapHas(traces, current)
       THEN MapGet(traces, current)
       ELSE sessionSpanByAgent

parentContextAlwaysSession(agent_id, current, traces) == sessionSpanByAgent

\* agentId = input.agent_id || currentAgentId
\* agentTrace = agentId ? agentTraces.get(agentId) : undefined
\* parentContext = agentTrace?.sessionSpanContext || sessionSpanContext
parentContextByAgent(agent_id, current, traces) ==
  LET agentId == IF agent_id # NoId THEN agent_id ELSE current
  IN IF agentId # NoId /\ MapHas(traces, agentId)
     THEN MapGet(traces, agentId)
     ELSE sessionSpanByAgent

PreToolUseByAgent(match, tool_use_id, agent_id, tool_input) ==
  /\ variant = "ByAgent" /\ pc = "query"
  /\ IF ~match THEN NotMatching
     ELSE LET agentId == IF agent_id # NoId THEN agent_id ELSE currentAgentId
              parentContext == parentContextByAgent(agent_id, currentAgentId,
                                                    agentSpans)
              span == startSpan("tool", "tool", tool_use_id, parentContext)
              t == truncateAttribute(toolInputStr(tool_input),
                                     MAX_ATTRIBUTE_LENGTH)
          IN /\ CanStart
             /\ IF t.threw
                THEN /\ spans' = Append(spans, span)
                     /\ Handled("rejected", "body")
                     /\ UNCHANGED <<toolSpans, dupStart>>
                ELSE /\ spans' = Append(spans,
                                        [span EXCEPT !.agentId = agentId,
                                                     !.input = t.val])
                     /\ toolSpans' = MapSet(toolSpans, tool_use_id,
                                            Len(spans) + 1)
                     /\ dupStart' = dupStart \cup
                          (IF MapHas(toolSpans, tool_use_id)
                           THEN {"tool"} ELSE {})
                     /\ Handled("continue", "body")
             /\ UNCHANGED <<fn, telemetry, variant, pc, agentSpans,
                            currentAgentId>>

PostToolUseByAgent(match, tool_use_id, tool_response) ==
  /\ variant = "ByAgent" /\ pc = "query"
  /\ IF ~match THEN NotMatching
     ELSE /\ IF MapHas(toolSpans, tool_use_id)
             THEN LET s == MapGet(toolSpans, tool_use_id)
                  IN /\ spans' = [spans EXCEPT ![s] =
                           end(setStatus([@ EXCEPT !.success = "true"],
                                         "OK", NoMessage), "handler")]
                     /\ toolSpans' = MapDelete(toolSpans, tool_use_id)
             ELSE UNCHANGED <<spans, toolSpans>>
          /\ Handled("continue", IF MapHas(toolSpans, tool_use_id)
                                 THEN "body" ELSE "absent")
          /\ UNCHANGED <<fn, telemetry, variant, pc, agentSpans,
                         currentAgentId, dupStart>>

PostToolUseFailureByAgent(match, tool_use_id, error) ==
  /\ variant = "ByAgent" /\ pc = "query"
  /\ IF ~match THEN NotMatching
     ELSE LET errorMessage == IF Truthy(error) THEN error ELSE UnknownError
              t == truncateAttribute(errorMessage, MAX_ATTRIBUTE_LENGTH)
              m == truncateAttribute(errorMessage, StatusMessageLength)
          IN /\ IF MapHas(toolSpans, tool_use_id)
                THEN LET s == MapGet(toolSpans, tool_use_id)
                     IN IF t.threw
                        THEN /\ spans' = [spans EXCEPT ![s].success = "false"]
                             /\ Handled("rejected", "body")
                             /\ UNCHANGED toolSpans
                        ELSE /\ spans' = [spans EXCEPT ![s] =
                                  end(setStatus([@ EXCEPT !.success = "false",
                                                          !.error = t.val,
                                                          !.exception = TRUE],
                                                "ERROR", m.val), "handler")]
                             /\ toolSpans' = MapDelete(toolSpans, tool_use_id)
                             /\ Handled("continue", "body")
                ELSE /\ Handled("continue", "absent")
                     /\ UNCHANGED <<spans, toolSpans>>
             /\ UNCHANGED <<fn, telemetry, variant, pc, agentSpans,
                            currentAgentId, dupStart>>

SessionStartByAgent(match) ==
  /\ variant = "ByAgent"
  /\ PointInTime("SessionStart", match, "hook.session_start",
                 sessionSpanByAgent, "UNSET")

SessionEndByAgent(match) ==
  /\ variant = "ByAgent"
  /\ PointInTime("SessionEnd", match, "hook.session_end",
                 sessionSpanByAgent, "UNSET")

NotificationByAgent(match) ==
  /\ variant = "ByAgent"
  /\ PointInTime("Notification", match, "hook.notification",
                 sessionSpanByAgent, "UNSET")

PermissionRequestByAgent(match) ==
  /\ variant = "ByAgent"
  /\ PointInTime("PermissionRequest", match, "hook.permission_request",
                 sessionSpanByAgent, "UNSET")

PreCompactByAgent(match) ==
  /\ variant = "ByAgent"
  /\ PointInTime("PreCompact", match, "hook.pre_compact",
                 sessionSpanByAgent, "UNSET")

StopByAgent(match) ==
  /\ variant = "ByAgent"
  /\ PointInTime("Stop", match, "hook.stop", sessionSpanByAgent, "UNSET")

SetupByAgent(match) ==
  /\ variant = "ByAgent"
  /\ PointInTime("Setup", match, "hook.setup", sessionSpanByAgent, "UNSET")

(* ===================== IndividualTraces variant ======================== *)
\* No root or session span: every span is started without a parent context.
InitIndividualTraces ==
  /\ variant = "IndividualTraces"
  /\ spans = << >>
  /\ agentSpans = << >>
  /\ toolSpans = << >>
  /\ currentAgentId = NoId

\* The span is started before the attribute object (which evaluates
\* truncateAttribute(input.prompt)) is built.
UserPromptSubmitIndividualTraces(match, prompt) ==
  /\ variant = "IndividualTraces" /\ pc = "query"
  /\ IF ~match THEN NotMatching
     ELSE LET t == truncateAttribute(prompt, MAX_ATTRIBUTE_LENGTH)
              span == startSpan("hook", "user_prompt_submit", NoId, 0)
          IN /\ CanStartHook
             /\ IF t.threw
                THEN /\ spans' = Append(spans, span)
                     /\ Handled("rejected", "body")
                ELSE /\ spans' = Append(spans,
                          end(setStatus([span EXCEPT !.prompt = t.val],
                                        "OK", NoMessage), "handler"))
                     /\ Handled("continue", "body")
             /\ UNCHANGED <<fn, telemetry, variant, pc, agentSpans, toolSpans,
                            currentAgentId, dupStart>>

SubagentStartIndividualTraces(match, agent_id, agent_type) ==
  /\ variant = "IndividualTraces" /\ pc = "query"
  /\ IF ~match THEN NotMatching
     ELSE /\ CanStart
          /\ spans' = Append(spans, startSpan("agent", agent_type, agent_id, 0))
          /\ agentSpans' = MapSet(agentSpans, agent_id, Len(spans) + 1)
          /\ dupStart' = dupStart \cup (IF MapHas(agentSpans, agent_id)
                                        THEN {"agent"} ELSE {})
          /\ Handled("continue", "body")
          /\ UNCHANGED <<fn, telemetry, variant, pc, toolSpans,
                         currentAgentId>>

SubagentStopDroppingTools(match, agent_id) ==
  /\ variant = "IndividualTraces" /\ pc = "query"
  /\ IF ~match THEN NotMatching
     ELSE /\ IF MapHas(agentSpans, agent_id)
             THEN LET s == MapGet(agentSpans, agent_id)
                  IN /\ spans' = [spans EXCEPT ![s] =
                           end(setStatus(@, "OK", NoMessage), "handler")]
                     /\ agentSpans' = MapDelete(agentSpans, agent_id)
                     /\ toolSpans' = << >>
             ELSE UNCHANGED <<spans, agentSpans, toolSpans>>
          /\ Handled("continue", IF MapHas(agentSpans, agent_id)
                                 THEN "body" ELSE "absent")
          /\ UNCHANGED <<fn, telemetry, variant, pc, currentAgentId,
                         dupStart>>

SubagentStopIndividualTraces(match, agent_id) ==
  /\ variant = "IndividualTraces" /\ pc = "query"
  /\ IF ~match THEN NotMatching
     ELSE /\ IF MapHas(agentSpans, agent_id)
             THEN LET s == MapGet(agentSpans, agent_id)
                  IN /\ spans' = [spans EXCEPT ![s] =
                           end(setStatus(@, "OK", NoMessage), "handler")]
                     /\ agentSpans' = MapDelete(agentSpans, agent_id)
             ELSE UNCHANGED <<spans, agentSpans>>
          /\ Handled("continue", IF MapHas(agentSpans, agent_id)
                                 THEN "body" ELSE "absent")
          /\ UNCHANGED <<fn, telemetry, variant, pc, toolSpans, currentAgentId,
                         dupStart>>

PreToolUseIndividualTraces(match, tool_use_id, agent_id, tool_input) ==
  /\ variant = "IndividualTraces" /\ pc = "query"
  /\ IF ~match THEN NotMatching
     ELSE LET span == startSpan("tool", "tool", tool_use_id, 0)
              t == truncateAttribute(toolInputStr(tool_input),
                                     MAX_ATTRIBUTE_LENGTH)
          IN /\ CanStart
             /\ IF t.threw
                THEN /\ spans' = Append(spans, span)
                     /\ Handled("rejected", "body")
                     /\ UNCHANGED <<toolSpans, dupStart>>
                ELSE /\ spans' = Append(spans,
                                        [span EXCEPT !.input = t.val])
                     /\ toolSpans' = MapSet(toolSpans, tool_use_id,
                                            Len(spans) + 1)
                     /\ dupStart' = dupStart \cup
                          (IF MapHas(toolSpans, tool_use_id)
                           THEN {"tool"} ELSE {})
                     /\ Handled("continue", "body")
             /\ UNCHANGED <<fn, telemetry, variant, pc, agentSpans,
                            currentAgentId>>

PostToolUseIndividualTraces(match, tool_use_id, tool_response) ==
  /\ variant = "IndividualTraces" /\ pc = "query"
  /\ IF ~match THEN NotMatching
     ELSE /\ IF MapHas(toolSpans, tool_use_id)
             THEN LET s == MapGet(toolSpans, tool_use_id)
                  IN /\ spans' = [spans EXCEPT ![s] =
                           end(setStatus([@ EXCEPT !.success = "true"],
                                         "OK", NoMessage), "handler")]
                     /\ toolSpans' = MapDelete(toolSpans, tool_use_id)
             ELSE UNCHANGED <<spans, toolSpans>>
          /\ Handled("continue", IF MapHas(toolSpans, tool_use_id)
                                 THEN "body" ELSE "absent")
          /\ UNCHANGED <<fn, telemetry, variant, pc, agentSpans,
                         currentAgentId, dupStart>>

\* input.error is not read: the status message is a fixed string, and neither
\* tool.error nor an exception is recorded.
PostToolUseFailureIndividualTraces(match, tool_use_id, error) ==
  /\ variant = "IndividualTraces" /\ pc = "query"
  /\ IF ~match THEN NotMatching
     ELSE /\ IF MapHas(toolSpans, tool_use_id)
             THEN LET s == MapGet(toolSpans, tool_use_id)
                  IN /\ spans' = [spans EXCEPT ![s] =
                           end(setStatus([@ EXCEPT !.success = "false"],
                                         "ERROR", ToolExecutionFailed),
                               "handler")]
                     /\ toolSpans' = MapDelete(toolSpans, tool_use_id)
             ELSE UNCHANGED <<spans, toolSpans>>
          /\ Handled("continue", IF MapHas(toolSpans, tool_use_id)
                                 THEN "body" ELSE "absent")
          /\ UNCHANGED <<fn, telemetry, variant, pc, agentSpans,
                         currentAgentId, dupStart>>

SessionStartIndividualTraces(match) ==
  /\ variant = "IndividualTraces"
  /\ PointInTime("SessionStart", match, "session_start", 0, "OK")

SessionEndIndividualTraces(match) ==
  /\ variant = "IndividualTraces"
  /\ PointInTime("SessionEnd", match, "session_end", 0, "OK")

NotificationIndividualTraces(match) ==
  /\ variant = "IndividualTraces"
  /\ PointInTime("Notification", match, "notification", 0, "OK")

PermissionRequestIndividualTraces(match) ==
  /\ variant = "IndividualTraces"
  /\ PointInTime("PermissionRequest", match, "permission_request", 0, "OK")

PreCompactIndividualTraces(match) ==
  /\ variant = "IndividualTraces"
  /\ PointInTime("PreCompact", match, "pre_compact", 0, "OK")

StopIndividualTraces(match) ==
  /\ variant = "IndividualTraces"
  /\ PointInTime("Stop", match, "stop", 0, "OK")

SetupIndividualTraces(match) ==
  /\ variant = "IndividualTraces"
  /\ PointInTime("Setup", match, "setup", 0, "OK")

(* ============================ cleanup() ================================ *)
cleanupAgentsFirst ==
  /\ variant = "SingleTrace" /\ pc = "finally"
  /\ LET tools == forOfDeleting(toolSpans)
         agents == forOfDeleting(agentSpans)
         swept == endOrphans(endOrphans(spans, agents, OrphanedSpan),
                             tools, OrphanedSpan)
     IN /\ spans' = endInSweep([swept EXCEPT ![sessionSpanSingleTrace] =
                                    setStatus(@, "OK", NoMessage)],
                               sessionSpanSingleTrace, "cleanup")
        /\ toolSpans' = afterSweep(toolSpans, tools)
        /\ agentSpans' = afterSweep(agentSpans, agents)
  /\ pc' = "cleaned"
  /\ Handled("returned", "body")
  /\ UNCHANGED <<fn, telemetry, variant, currentAgentId, dupStart>>

\* The spans as cleanup() leaves them: the tool loop, the agent loop, then
\* sessionSpan.setStatus(OK) and sessionSpan.end(), whatever came before.
sweptSingleTrace(sp, toolEntries, agentEntries) ==
  LET swept == endOrphans(endOrphans(sp, forOfDeleting(toolEntries),
                                     OrphanedSpan),
                          forOfDeleting(agentEntries), OrphanedSpan)
  IN endInSweep([swept EXCEPT ![sessionSpanSingleTrace] =
                    setStatus(@, "OK", NoMessage)],
                sessionSpanSingleTrace, "cleanup")

cleanupSingleTrace ==
  /\ variant = "SingleTrace" /\ pc = "finally"
  /\ spans' = sweptSingleTrace(spans, toolSpans, agentSpans)
  /\ toolSpans' = afterSweep(toolSpans, forOfDeleting(toolSpans))
  /\ agentSpans' = afterSweep(agentSpans, forOfDeleting(agentSpans))
  /\ pc' = "cleaned"
  /\ Handled("returned", "body")
  /\ UNCHANGED <<fn, telemetry, variant, currentAgentId, dupStart>>

\* Orphaned agent traces get their own message; sessionSpan is not touched.
sweptByAgent(sp, toolEntries, agentEntries) ==
  endOrphans(endOrphans(sp, forOfDeleting(toolEntries), OrphanedSpan),
             forOfDeleting(agentEntries), OrphanedAgentTrace)

cleanupByAgent ==
  /\ variant = "ByAgent" /\ pc = "finally"
  /\ spans' = sweptByAgent(spans, toolSpans, agentSpans)
  /\ toolSpans' = afterSweep(toolSpans, forOfDeleting(toolSpans))
  /\ agentSpans' = afterSweep(agentSpans, forOfDeleting(agentSpans))
  /\ pc' = "cleaned"
  /\ Handled("returned", "body")
  /\ UNCHANGED <<fn, telemetry, variant, currentAgentId, dupStart>>

cleanupEndingEverySpan ==
  /\ variant = "IndividualTraces" /\ pc = "finally"
  /\ spans' = [i \in 1..Len(spans) |->
                 IF spans[i].kind \in {"agent", "tool"}
                 THEN end(setStatus(spans[i], "ERROR", OrphanedSpan), "sweep")
                 ELSE spans[i]]
  /\ toolSpans' = << >>
  /\ agentSpans' = << >>
  /\ pc' = "cleaned"
  /\ Handled("returned", "body")
  /\ UNCHANGED <<fn, telemetry, variant, currentAgentId, dupStart>>

sweptIndividualTraces(sp, toolEntries, agentEntries) ==
  endOrphans(endOrphans(sp, forOfDeleting(toolEntries), OrphanedSpan),
             forOfDeleting(agentEntries), OrphanedSpan)

cleanupIndividualTraces ==
  /\ variant = "IndividualTraces" /\ pc = "finally"
  /\ spans' = sweptIndividualTraces(spans, toolSpans, agentSpans)
  /\ toolSpans' = afterSweep(toolSpans, forOfDeleting(toolSpans))
  /\ agentSpans' = afterSweep(agentSpans, forOfDeleting(agentSpans))
  /\ pc' = "cleaned"
  /\ Handled("returned", "body")
  /\ UNCHANGED <<fn, telemetry, variant, currentAgentId, dupStart>>

(* ============================== main() ================================= *)
\* try { for await (... of query(...)) } catch: the query stream ends, either
\* normally or by throwing; control reaches the finally block.
mainTrySingleTrace(threw) ==
  /\ variant = "SingleTrace" /\ pc = "query"
  /\ spans' = [spans EXCEPT ![rootSpanSingleTrace] =
                 IF threw
                 THEN [setStatus(@, "ERROR", Str("query failed", 12))
                         EXCEPT !.exception = TRUE]
                 ELSE setStatus(@, "OK", NoMessage)]
  /\ pc' = "finally"
  /\ Handled(IF threw THEN "threw" ELSE "completed", "body")
  /\ UNCHANGED <<fn, telemetry, variant, agentSpans, toolSpans, currentAgentId,
                 dupStart>>

\* catch: a single "agent.error" span is started, marked and ended.
errorSpan ==
  end([setStatus(startSpan("error", "agent.error", NoId, 0), "ERROR",
                 Str("query failed", 12)) EXCEPT !.exception = TRUE], "main")

mainTryByAgent(threw) ==
  /\ variant = "ByAgent" /\ pc = "query"
  /\ spans' = IF threw THEN Append(spans, errorSpan) ELSE spans
  /\ pc' = "finally"
  /\ Handled(IF threw THEN "threw" ELSE "completed", "body")
  /\ UNCHANGED <<fn, telemetry, variant, agentSpans, toolSpans, currentAgentId,
                 dupStart>>

mainTrySkippingCleanup(threw) ==
  /\ variant = "IndividualTraces" /\ pc = "query"
  /\ spans' = IF threw THEN Append(spans, errorSpan) ELSE spans
  /\ pc' = IF threw THEN "cleaned" ELSE "finally"
  /\ Handled(IF threw THEN "threw" ELSE "completed", "body")
  /\ UNCHANGED <<fn, telemetry, variant, agentSpans, toolSpans,
                 currentAgentId, dupStart>>

mainTryIndividualTraces(threw) ==
  /\ variant = "IndividualTraces" /\ pc = "query"
  /\ spans' = IF threw THEN Append(spans, errorSpan) ELSE spans
  /\ pc' = "finally"
  /\ Handled(IF threw THEN "threw" ELSE "completed", "body")
  /\ UNCHANGED <<fn, telemetry, variant, agentSpans, toolSpans, currentAgentId,
                 dupStart>>

\* The query stream ended by throwing: the catch block marked rootSpan
\* (SingleTrace) or recorded an "agent.error" span, and rethrew.
QueryThrew ==
  IF variant = "SingleTrace"
  THEN spans[rootSpanSingleTrace].status = "ERROR"
  ELSE \E i \in 1..Len(spans) : spans[i].kind = "error"

mainOutcomeUncaught(queryThrew, shutdownThrew) ==
  [result |-> IF queryThrew \/ shutdownThrew
              THEN "exit 1" ELSE "main resolved",
   path |-> "body"]

\* How main() ends once its finally block is through: a failure of
\* shutdownTelemetry() is caught and logged there; the error rethrown by the
\* catch block rejects main, and main().catch(...) calls process.exit(1).
mainOutcome(queryThrew, shutdownThrew) ==
  [result |-> IF queryThrew THEN "exit 1" ELSE "main resolved",
   path |-> IF shutdownThrew THEN "shutdown error logged" ELSE "body"]

\* finally, after telemetry.cleanup(): telemetry.rootSpan.end(), then
\* try { await shutdownTelemetry() } catch { console.error(...) }
mainFinallySingleTrace(failAt) ==
  /\ variant = "SingleTrace" /\ pc = "cleaned"
  /\ spans' = [spans EXCEPT ![rootSpanSingleTrace] = end(@, "main")]
  /\ telemetry' = shutdownTelemetry(telemetry, failAt).t
  /\ pc' = "done"
  /\ LET o == mainOutcome(QueryThrew,
                          shutdownTelemetry(telemetry, failAt).threw)
     IN Handled(o.result, o.path)
  /\ UNCHANGED <<fn, variant, agentSpans, toolSpans, currentAgentId,
                 dupStart>>

\* finally, after telemetry.cleanup():
\* try { await shutdownTelemetry() } catch { console.error(...) }
mainFinallyByAgent(failAt) ==
  /\ variant = "ByAgent" /\ pc = "cleaned"
  /\ telemetry' = shutdownTelemetry(telemetry, failAt).t
  /\ pc' = "done"
  /\ LET o == mainOutcome(QueryThrew,
                          shutdownTelemetry(telemetry, failAt).threw)
     IN Handled(o.result, o.path)
  /\ UNCHANGED <<fn, variant, spans, agentSpans, toolSpans, currentAgentId,
                 dupStart>>

mainFinallyIndividualTraces(failAt) ==
  /\ variant = "IndividualTraces" /\ pc = "cleaned"
  /\ telemetry' = shutdownTelemetry(telemetry, failAt).t
  /\ pc' = "done"
  /\ LET o == mainOutcome(QueryThrew,
                          shutdownTelemetry(telemetry, failAt).threw)
     IN Handled(o.result, o.path)
  /\ UNCHANGED <<fn, variant, spans, agentSpans, toolSpans, currentAgentId,
                 dupStart>>

(* ========================= the specification =========================== *)
\* The state right after withAgentTelemetry(tracer) returned in main():
\* initTelemetry() has run, with telemetry enabled.
Init ==
  /\ (InitSingleTrace \/ InitByAgent \/ InitIndividualTraces)
  /\ pc = "query"
  /\ result = "returned"
  /\ path = "body"
  /\ dupStart = {}
  /\ telemetry = initTelemetry(NoTelemetry, TRUE, "none").t
  /\ fn = NoCall

Next ==
  \/ \E m \in BOOLEAN, p \in Prompts : UserPromptSubmitSingleTrace(m, p)
  \/ \E m \in BOOLEAN, a \in AgentIds, ty \in AgentTypes :
        SubagentStartSingleTrace(m, a, ty)
  \/ \E m \in BOOLEAN, a \in AgentIds : SubagentStopSingleTrace(m, a)
  \/ \E m \in BOOLEAN, u \in ToolIds, a \in AgentIds \cup {NoId},
        i \in ToolInputs : PreToolUseSingleTrace(m, u, a, i)
  \/ \E m \in BOOLEAN, u \in ToolIds, r \in ToolResponses :
        PostToolUseSingleTrace(m, u, r)
  \/ \E m \in BOOLEAN, u \in ToolIds, e \in Errors :
        PostToolUseFailureSingleTrace(m, u, e)
  \/ \E m \in BOOLEAN : SessionStartSingleTrace(m)
  \/ \E m \in BOOLEAN : SessionEndSingleTrace(m)
  \/ \E m \in BOOLEAN : NotificationSingleTrace(m)
  \/ \E m \in BOOLEAN : PermissionRequestSingleTrace(m)
  \/ \E m \in BOOLEAN : PreCompactSingleTrace(m)
  \/ \E m \in BOOLEAN : StopSingleTrace(m)
  \/ \E m \in BOOLEAN : SetupSingleTrace(m)
  \/ \E t \in BOOLEAN : mainTrySingleTrace(t)
  \/ cleanupSingleTrace
  \/ \E f \in ShutdownFailures : mainFinallySingleTrace(f)
  \/ \E m \in BOOLEAN, p \in Prompts : UserPromptSubmitByAgent(m, p)
  \/ \E m \in BOOLEAN, a \in AgentIds, ty \in AgentTypes :
        SubagentStartByAgent(m, a, ty)
  \/ \E m \in BOOLEAN, a \in AgentIds : SubagentStopByAgent(m, a)
  \/ \E m \in BOOLEAN, u \in ToolIds, a \in AgentIds \cup {NoId},
        i \in ToolInputs : PreToolUseByAgent(m, u, a, i)
  \/ \E m \in BOOLEAN, u \in ToolIds, r \in ToolResponses :
        PostToolUseByAgent(m, u, r)
  \/ \E m \in BOOLEAN, u \in ToolIds, e \in Errors :
        PostToolUseFailureByAgent(m, u, e)
  \/ \E m \in BOOLEAN : SessionStartByAgent(m)
  \/ \E m \in BOOLEAN : SessionEndByAgent(m)
  \/ \E m \in BOOLEAN : NotificationByAgent(m)
  \/ \E m \in BOOLEAN : PermissionRequestByAgent(m)
  \/ \E m \in BOOLEAN : PreCompactByAgent(m)
  \/ \E m \in BOOLEAN : StopByAgent(m)
  \/ \E m \in BOOLEAN : SetupByAgent(m)
  \/ \E t \in BOOLEAN : mainTryByAgent(t)
  \/ cleanupByAgent
  \/ \E f \in ShutdownFailures : mainFinallyByAgent(f)
  \/ \E m \in BOOLEAN, p \in Prompts : UserPromptSubmitIndividualTraces(m, p)
  \/ \E m \in BOOLEAN, a \in AgentIds, ty \in AgentTypes :
        SubagentStartIndividualTraces(m, a, ty)
  \/ \E m \in BOOLEAN, a \in AgentIds : SubagentStopIndividualTraces(m, a)
  \/ \E m \in BOOLEAN, u \in ToolIds, a \in AgentIds \cup {NoId},
        i \in ToolInputs : PreToolUseIndividualTraces(m, u, a, i)
  \/ \E m \in BOOLEAN, u \in ToolIds, r \in ToolResponses :
        PostToolUseIndividualTraces(m, u, r)
  \/ \E m \in BOOLEAN, u \in ToolIds, e \in Errors :
        PostToolUseFailureIndividualTraces(m, u, e)
  \/ \E m \in BOOLEAN : SessionStartIndividualTraces(m)
  \/ \E m \in BOOLEAN : SessionEndIndividualTraces(m)
  \/ \E m \in BOOLEAN : NotificationIndividualTraces(m)
  \/ \E m \in BOOLEAN : PermissionRequestIndividualTraces(m)
  \/ \E m \in BOOLEAN : PreCompactIndividualTraces(m)
  \/ \E m \in BOOLEAN : StopIndividualTraces(m)
  \/ \E m \in BOOLEAN : SetupIndividualTraces(m)
  \/ \E t \in BOOLEAN : mainTryIndividualTraces(t)
  \/ cleanupIndividualTraces
  \/ \E f \in ShutdownFailures : mainFinallyIndividualTraces(f)

Spec == Init /\ [][Next]_vars

\* The same tracker fed only the events that store a payload-derived
\* attribute, with payloads around the attribute cap.
NextPayloads ==
  \/ \E p \in LongPrompts : UserPromptSubmitSingleTrace(TRUE, p)
  \/ \E u \in ToolIds, i \in LongToolInputs :
        PreToolUseSingleTrace(TRUE, u, NoId, i)
  \/ \E u \in ToolIds, e \in LongErrors :
        PostToolUseFailureSingleTrace(TRUE, u, e)
  \/ \E p \in LongPrompts : UserPromptSubmitByAgent(TRUE, p)
  \/ \E u \in ToolIds, i \in LongToolInputs :
        PreToolUseByAgent(TRUE, u, NoId, i)
  \/ \E u \in ToolIds, e \in LongErrors :
        PostToolUseFailureByAgent(TRUE, u, e)
  \/ \E p \in LongPrompts : UserPromptSubmitIndividualTraces(TRUE, p)
  \/ \E u \in ToolIds, i \in LongToolInputs :
        PreToolUseIndividualTraces(TRUE, u, NoId, i)
  \/ \E u \in ToolIds, e \in LongErrors :
        PostToolUseFailureIndividualTraces(TRUE, u, e)

SpecPayloads == Init /\ [][NextPayloads]_vars

(* ------------------- the telemetry module on its own -------------------- *)
\* The module just loaded: sdk and loggerProvider are null; no tracker.
InitTelemetryModule ==
  /\ telemetry = NoTelemetry
  /\ pc = "module"
  /\ variant = "none"
  /\ spans = << >> /\ agentSpans = << >> /\ toolSpans = << >>
  /\ currentAgentId = NoId
  /\ result = "returned" /\ path = "loaded"
  /\ dupStart = {}
  /\ fn = NoCall

\* initTelemetry(), with CLAUDE_CODE_ENABLE_TELEMETRY "1" or not; path is
\* the line it logs.
initTelemetryCall(enabled, failAt) ==
  /\ pc = "module"
  /\ telemetry.providers < MaxInits
  /\ telemetry' = initTelemetry(telemetry, enabled, failAt).t
  /\ result' = IF initTelemetry(telemetry, enabled, failAt).threw
               THEN "threw" ELSE "returned"
  /\ path' = IF ~enabled THEN "Telemetry disabled"
             ELSE IF telemetry.sdk # 0
             THEN "Telemetry already initialized, skipping..."
             ELSE IF initTelemetry(telemetry, enabled, failAt).threw
             THEN "Failed to initialize telemetry"
             ELSE "Telemetry initialized"
  /\ UNCHANGED <<fn, variant, pc, spans, agentSpans, toolSpans,
                 currentAgentId, dupStart>>

\* await shutdownTelemetry(); path is the line it logs, if any.
shutdownTelemetryCall(failAt) ==
  /\ pc = "module"
  /\ telemetry' = shutdownTelemetry(telemetry, failAt).t
  /\ result' = IF shutdownTelemetry(telemetry, failAt).threw
               THEN "threw" ELSE "returned"
  /\ path' = IF telemetry.sdk = 0 /\ telemetry.loggerProvider = 0
             THEN "nothing to shut down"
             ELSE IF shutdownTelemetry(telemetry, failAt).threw
             THEN "Error during telemetry shutdown"
             ELSE "Telemetry shut down"
  /\ UNCHANGED <<fn, variant, pc, spans, agentSpans, toolSpans,
                 currentAgentId, dupStart>>

NextTelemetry ==
  \/ \E e \in BOOLEAN, f \in InitFailures : initTelemetryCall(e, f)
  \/ \E f \in ShutdownFailures : shutdownTelemetryCall(f)

SpecTelemetry == InitTelemetryModule /\ [][NextTelemetry]_vars

(* --------------------------- pure functions ----------------------------- *)
\* TELEMETRY_CONFIG
MIN_METRIC_INTERVAL == 100
MAX_METRIC_INTERVAL == 3600000
DEFAULT_METRIC_INTERVAL == 10000

\* An environment variable: unset (undefined), or a string, held as the
\* sequence of its characters.
Unset == [set |-> FALSE, chars |-> << >>]
EnvString(chars) == [set |-> TRUE, chars |-> chars]

Digit == <<"0", "1", "2", "3", "4", "5", "6", "7", "8", "9">>
IsDigit(c) == \E i \in 1..10 : Digit[i] = c
DigitValue(c) == (CHOOSE i \in 1..10 : Digit[i] = c) - 1
WhiteSpace == {" ", "\t", "\n"}

NaN == [isNaN |-> TRUE, n |-> 0]
Num(n) == [isNaN |-> FALSE, n |-> n]

\* The string without its leading white space.
RECURSIVE trimStart(_)
trimStart(s) ==
  IF s # << >> /\ Head(s) \in WhiteSpace THEN trimStart(Tail(s)) ELSE s

\* The number of decimal digits s starts with.
RECURSIVE leadingDigits(_)
leadingDigits(s) ==
  IF s # << >> /\ IsDigit(Head(s)) THEN 1 + leadingDigits(Tail(s)) ELSE 0

\* The value of a run of decimal digits, read after acc.
RECURSIVE digitsValue(_, _)
digitsValue(s, acc) ==
  IF s = << >> THEN acc
  ELSE digitsValue(Tail(s), 10 * acc + DigitValue(Head(s)))

\* parseInt(string, 10): leading white space is skipped, a sign is read,
\* then the longest run of digits; whatever follows is ignored, and with no
\* digit at that place the result is NaN.
parseInt(s) ==
  LET t == trimStart(s)
      signed == t # << >> /\ Head(t) \in {"+", "-"}
      u == IF signed THEN Tail(t) ELSE t
      k == leadingDigits(u)
      v == digitsValue(SubSeq(u, 1, k), 0)
  IN IF k = 0 THEN NaN
     ELSE IF signed /\ Head(t) = "-" THEN Num(0 - v) ELSE Num(v)

parseExportIntervalAcceptingZero(envValue, defaultValue) ==
  IF ~envValue.set \/ envValue.chars = << >> THEN defaultValue
  ELSE LET parsed == parseInt(envValue.chars)
       IN IF parsed.isNaN \/ parsed.n < 0 THEN defaultValue
          ELSE IF parsed.n < MIN_METRIC_INTERVAL THEN MIN_METRIC_INTERVAL
          ELSE IF parsed.n > MAX_METRIC_INTERVAL THEN MAX_METRIC_INTERVAL
          ELSE parsed.n

\* parseExportInterval(envName, envValue, defaultValue); envName only
\* appears in the warnings.
parseExportInterval(envValue, defaultValue) ==
  IF ~envValue.set \/ envValue.chars = << >> THEN defaultValue
  ELSE LET parsed == parseInt(envValue.chars)
       IN IF parsed.isNaN \/ parsed.n <= 0 THEN defaultValue
          ELSE IF parsed.n < MIN_METRIC_INTERVAL THEN MIN_METRIC_INTERVAL
          ELSE IF parsed.n > MAX_METRIC_INTERVAL THEN MAX_METRIC_INTERVAL
          ELSE parsed.n

Null == [t |-> "null", txt |-> "null", len |-> 4, cut |-> FALSE]
DenyMessage == "Use sub-agents for Bash operations"

canUseToolFalsyAgent(toolName, input, agentID) ==
  IF ~(agentID.t # "undefined" /\ agentID.t # "null" /\ Truthy(agentID))
     /\ toolName = "Bash"
  THEN [behavior |-> "deny", message |-> DenyMessage]
  ELSE [behavior |-> "allow", updatedInput |-> input]

\* canUseTool(toolName, input, { agentID })
canUseTool(toolName, input, agentID) ==
  LET isSubAgent == agentID.t # "undefined"
  IN IF ~isSubAgent /\ toolName = "Bash"
     THEN [behavior |-> "deny", message |-> DenyMessage]
     ELSE [behavior |-> "allow", updatedInput |-> input]

(* A value handed to getErrorMessage: kind is what the type tests of the    *)
(* function see; s is error.message for an Error, and otherwise the text    *)
(* the value's own conversion to a string gives; toString tells what the   *)
(* object's toString property is; json is what JSON.stringify makes of it.  *)
ErrorValue(kind, s, toString, json) ==
  [kind |-> kind, s |-> s, toString |-> toString, json |-> json]

ObjectObject == Str("[object Object]", 15)
JSONText == Str("{\"code\":500}", 12)

\* String(error): for an object, its toString() is called; with a toString
\* that throws, or no callable toString and valueOf at all, String throws.
StringOfError(error) ==
  CASE error.kind = "object" /\ error.toString \in {"throws", "absent"} ->
         Thrown
    [] error.kind = "object" /\ error.toString = "inherited" ->
         Returned(ObjectObject)
    [] OTHER -> Returned(error.s)

\* JSON.stringify(error): throws on a circular structure; undefined when
\* toJSON returns undefined.
JSONstringifyError(error) ==
  CASE error.json = "circular" -> Thrown
    [] error.json = "undefined" -> Returned(Undefined)
    [] OTHER -> Returned(JSONText)

\* result.match(/^\[object .+\]$/)
matchesObjectFormat(str) ==
  str.txt \in {"[object Object]", "[object Custom]"}

\* typeof errorObj.toString === "function" &&
\* errorObj.toString !== Object.prototype.toString
hasCustomToString(error) == error.toString \in {"custom", "throws"}

getErrorMessage(error) ==
  CASE error.kind = "Error" -> Returned(error.s)
    [] error.kind = "string" -> Returned(error.s)
    [] error.kind \in {"null", "undefined"} -> StringOfError(error)
    [] error.kind = "array" -> StringOfError(error)
    [] error.kind = "RegExp" -> StringOfError(error)
    [] error.kind = "object" ->
         IF /\ hasCustomToString(error)
            /\ ~StringOfError(error).threw
            /\ Truthy(StringOfError(error).val)
            /\ ~matchesObjectFormat(StringOfError(error).val)
         THEN StringOfError(error)
         ELSE IF ~JSONstringifyError(error).threw
         THEN JSONstringifyError(error)
         ELSE StringOfError(error)
    [] OTHER -> StringOfError(error)

(* ------------------------ inputs of the functions ----------------------- *)
\* Strings made of optional white space, an optional sign, a run of digits
\* around the limits, and something after the digits.
EnvValues ==
  LET Prefixes == {<< >>, <<" ">>}
      Signs == {<< >>, <<"+">>, <<"-">>}
      DigitRuns ==
        {<< >>, <<"0">>, <<"1">>, <<"9", "9">>, <<"1", "0", "0">>,
         <<"1", "0", "1">>, <<"0", "5", "0">>,
         <<"3", "5", "9", "9", "9", "9", "9">>,
         <<"3", "6", "0", "0", "0", "0", "0">>,
         <<"3", "6", "0", "0", "0", "0", "1">>}
      Suffixes == {<< >>, <<"m", "s">>, <<".", "5">>, <<"e", "3">>, <<" ">>}
  IN {Unset} \cup {EnvString(p \o g \o d \o x) :
                     p \in Prefixes, g \in Signs, d \in DigitRuns,
                     x \in Suffixes}
DefaultValues == {DEFAULT_METRIC_INTERVAL, DEFAULT_METRIC_INTERVAL \div 2,
                  MIN_METRIC_INTERVAL \div 2}

ToolNames == {"Bash", "bash", "Read", "Task", ""}
AgentIDs == {Undefined, Null, Str("", 0), Str("agent-1", 7)}
PermissionInputs == {PlainObject, Undefined, CircularObject}

\* One value of each kind the function tells apart; the objects with each
\* toString and each JSON.stringify outcome.
ErrorValues ==
  {ErrorValue("Error", Str("boom", 4), "inherited", "ok"),
   ErrorValue("Error", Str("", 0), "inherited", "ok"),
   ErrorValue("string", Str("plain failure", 13), "inherited", "ok"),
   ErrorValue("string", Str("", 0), "inherited", "ok"),
   ErrorValue("null", Str("null", 4), "absent", "ok"),
   ErrorValue("undefined", Str("undefined", 9), "absent", "undefined"),
   ErrorValue("array", Str("1,2,3", 5), "custom", "ok"),
   ErrorValue("RegExp", Str("/x/", 3), "custom", "ok"),
   ErrorValue("number", Str("42", 2), "custom", "ok")}
  \cup {ErrorValue("object", str, "custom", js) :
          str \in {Str("custom text", 11), Str("[object Custom]", 15),
                   Str("", 0)},
          js \in {"ok", "circular", "undefined"}}
  \cup {ErrorValue("object", ObjectObject, ts, js) :
          ts \in {"inherited", "throws", "absent"},
          js \in {"ok", "circular", "undefined"}}

\* No function called yet.
InitFunctions ==
  /\ fn = NoCall
  /\ pc = "functions"
  /\ variant = "none"
  /\ spans = << >> /\ agentSpans = << >> /\ toolSpans = << >>
  /\ currentAgentId = NoId
  /\ result = "returned" /\ path = "loaded"
  /\ dupStart = {}
  /\ telemetry = NoTelemetry

parseExportIntervalCall(envValue, defaultValue) ==
  /\ pc = "functions"
  /\ fn' = [name |-> "parseExportInterval",
            args |-> <<envValue, defaultValue>>,
            ret |-> parseExportInterval(envValue, defaultValue)]
  /\ UNCHANGED <<variant, pc, spans, agentSpans, toolSpans, currentAgentId,
                 result, path, dupStart, telemetry>>

canUseToolCall(toolName, input, agentID) ==
  /\ pc = "functions"
  /\ fn' = [name |-> "canUseTool",
            args |-> <<toolName, input, agentID>>,
            ret |-> canUseTool(toolName, input, agentID)]
  /\ UNCHANGED <<variant, pc, spans, agentSpans, toolSpans, currentAgentId,
                 result, path, dupStart, telemetry>>

getErrorMessageCall(error) ==
  /\ pc = "functions"
  /\ fn' = [name |-> "getErrorMessage",
            args |-> <<error>>,
            ret |-> getErrorMessage(error)]
  /\ UNCHANGED <<variant, pc, spans, agentSpans, toolSpans, currentAgentId,
                 result, path, dupStart, telemetry>>

NextFunctions ==
  \/ \E v \in EnvValues, d \in DefaultValues : parseExportIntervalCall(v, d)
  \/ \E n \in ToolNames, i \in PermissionInputs, a \in AgentIDs :
       canUseToolCall(n, i, a)
  \/ \E e \in ErrorValues : getErrorMessageCall(e)

SpecFunctions == InitFunctions /\ [][NextFunctions]_vars

(* ------------- shutdownTelemetry() calls that are not awaited ------------ *)
(* A call runs up to its first await when it is made, and from one await to *)
(* the next (or to its end) when the awaited shutdown() promise settles;    *)
(* other calls may start or resume in between. pc[c] is where call c is:    *)
(* "idle" (not made yet), "await loggerProvider.shutdown()",                *)
(* "await sdk.shutdown()", "resolved" or "rejected".                        *)
MaxCalls == 3
Calls == 1..MaxCalls

\* initTelemetry() has succeeded once; no shutdownTelemetry() call made yet.
InitConcurrentShutdown ==
  /\ telemetry = initTelemetry(NoTelemetry, TRUE, "none").t
  /\ pc = [c \in Calls |-> "idle"]
  /\ variant = "none"
  /\ spans = << >> /\ agentSpans = << >> /\ toolSpans = << >>
  /\ currentAgentId = NoId
  /\ result = "returned" /\ path = "loaded"
  /\ dupStart = {}
  /\ fn = NoCall

\* if (sdk) { await sdk.shutdown(); ... }, reached with the logger provider
\* done or absent: shutdown() is invoked on the SDK and the call suspends;
\* with no SDK the call logs "Telemetry shut down" and resolves.
sdkShutdownInvoked(t, c) ==
  IF t.sdk # 0
  THEN /\ telemetry' = [t EXCEPT !.sdkShutdowns = @ + 1]
       /\ pc' = [pc EXCEPT ![c] = "await sdk.shutdown()"]
  ELSE /\ telemetry' = t
       /\ pc' = [pc EXCEPT ![c] = "resolved"]

\* The call is made: if (!sdk && !loggerProvider) return; otherwise
\* if (loggerProvider) { await loggerProvider.shutdown(); ... }
shutdownTelemetryBegins(c) ==
  /\ pc[c] = "idle"
  /\ IF telemetry.sdk = 0 /\ telemetry.loggerProvider = 0
     THEN /\ pc' = [pc EXCEPT ![c] = "resolved"]
          /\ UNCHANGED telemetry
     ELSE IF telemetry.loggerProvider # 0
     THEN /\ telemetry' = [telemetry EXCEPT !.loggerShutdowns = @ + 1]
          /\ pc' = [pc EXCEPT ![c] = "await loggerProvider.shutdown()"]
     ELSE sdkShutdownInvoked(telemetry, c)
  /\ UNCHANGED <<fn, variant, spans, agentSpans, toolSpans, currentAgentId,
                 result, path, dupStart>>

\* catch: sdk = null; loggerProvider = null; throw error
shutdownRejected(c) ==
  /\ telemetry' = [telemetry EXCEPT !.sdk = 0, !.loggerProvider = 0]
  /\ pc' = [pc EXCEPT ![c] = "rejected"]

\* loggerProvider.shutdown() settles: loggerProvider = null and on to the
\* SDK, or the catch block.
loggerProviderShutdownSettles(c, rejects) ==
  /\ pc[c] = "await loggerProvider.shutdown()"
  /\ IF rejects THEN shutdownRejected(c)
     ELSE sdkShutdownInvoked([telemetry EXCEPT !.loggerProvider = 0], c)
  /\ UNCHANGED <<fn, variant, spans, agentSpans, toolSpans, currentAgentId,
                 result, path, dupStart>>

\* sdk.shutdown() settles: sdk = null and the call resolves, or the catch
\* block.
sdkShutdownSettles(c, rejects) ==
  /\ pc[c] = "await sdk.shutdown()"
  /\ IF rejects THEN shutdownRejected(c)
     ELSE /\ telemetry' = [telemetry EXCEPT !.sdk = 0]
          /\ pc' = [pc EXCEPT ![c] = "resolved"]
  /\ UNCHANGED <<fn, variant, spans, agentSpans, toolSpans, currentAgentId,
                 result, path, dupStart>>

NextConcurrentShutdown ==
  \/ \E c \in Calls : shutdownTelemetryBegins(c)
  \/ \E c \in Calls, r \in BOOLEAN : loggerProviderShutdownSettles(c, r)
  \/ \E c \in Calls, r \in BOOLEAN : sdkShutdownSettles(c, r)

SpecConcurrentShutdown ==
  InitConcurrentShutdown /\ [][NextConcurrentShutdown]_vars

(* ============================ properties =============================== *)
Finished == pc \in {"cleaned", "done"}

RegistrySpans == {i \in 1..Len(spans) : spans[i].kind \in {"agent", "tool"}}

\* The agent id of the most recent SubagentStart, NoId if there was none.
LastStartedAgent ==
  LET A == {i \in 1..Len(spans) : spans[i].kind = "agent"}
  IN IF A = {} THEN NoId
     ELSE spans[CHOOSE i \in A : \A j \in A : j <= i].key

sessionSpanOf == IF variant = "SingleTrace" THEN sessionSpanSingleTrace
                 ELSE sessionSpanByAgent

\* C1 (no leak): once cleanup() has returned, the tool registry and the agent
\* registry are both empty, in each variant and whatever events came before.
C1_NoLeak == Finished => (toolSpans = << >> /\ agentSpans = << >>)

\* A run in which an agent and a tool never got their stop event, swept.
C1_Witness ==
  /\ pc = "cleaned"
  /\ \E i, j \in RegistrySpans :
       /\ spans[i].kind = "agent" /\ spans[i].endedBy = "sweep"
       /\ spans[j].kind = "tool" /\ spans[j].endedBy = "sweep"

\* C2 (no double-close): when no id was started twice, after cleanup() every
\* agent span and every tool span that was started has been ended exactly
\* once.
C2_EndedExactlyOnce ==
  (Finished /\ dupStart = {}) => \A i \in RegistrySpans : spans[i].ends = 1

\* C3: over a whole run of an entry point, no span has end() called more
\* than once.
C3_NeverEndedTwice == \A i \in 1..Len(spans) : spans[i].ends <= 1

\* C4: in the variants with a long-lived session span, cleanup() ends that
\* span with status OK, and (no id started twice) once cleanup() has
\* returned no span is still open.
C4_AllClosedAfterCleanup ==
  (Finished /\ dupStart = {}) =>
     /\ variant \in {"SingleTrace", "ByAgent"} =>
          /\ spans[sessionSpanOf].ends = 1
          /\ spans[sessionSpanOf].status = "OK"
     /\ \A i \in 1..Len(spans) : spans[i].ends >= 1

C6_UnknownIdNoOp ==
  [][path' = "absent" =>
       /\ UNCHANGED <<spans, agentSpans, toolSpans, currentAgentId>>
       /\ result' = "continue"]_vars

\* An unknown id arrives while an agent and a tool are open.
C6_Witness ==
  /\ path = "absent" /\ result = "continue"
  /\ agentSpans # << >> /\ toolSpans # << >>

\* C7: no hook handler ever throws, whatever the payload.
C7_HandlersNeverThrow == result # "rejected"

\* C8: every handler call resolves to { continue: true }, and a call whose
\* hook_event_name does not match starts and ends no span and changes no
\* registry entry.
C8_AlwaysContinue ==
  [][(pc = "query" /\ pc' = "query") =>
       /\ result' = "continue"
       /\ path' = "skip" =>
            UNCHANGED <<spans, agentSpans, toolSpans, currentAgentId>>]_vars

\* C9 (hierarchical parenting): a tool started with no explicit agent id
\* while the most recently started agent is open is parented under that
\* agent (in SingleTrace: provided no agent id was started twice); started
\* while no agent is open it is parented under the session span.
C9_HierarchicalParenting ==
  [][\A u \in ToolIds, i \in ToolInputs :
       (PreToolUseSingleTrace(TRUE, u, NoId, i)
          \/ PreToolUseByAgent(TRUE, u, NoId, i)) =>
         /\ (/\ MapHas(agentSpans, LastStartedAgent)
             /\ variant = "SingleTrace" => "agent" \notin dupStart) =>
              spans'[Len(spans')].parent = MapGet(agentSpans, LastStartedAgent)
         /\ agentSpans = << >> =>
              spans'[Len(spans')].parent = sessionSpanOf]_vars

\* Agent A started, tool T under A, A stopped, tool T2 under the session.
C9_Witness ==
  /\ variant \in {"SingleTrace", "ByAgent"}
  /\ \E a, t1, t2 \in RegistrySpans :
       /\ a < t1 /\ t1 < t2
       /\ spans[a].kind = "agent" /\ spans[a].endedBy = "handler"
       /\ spans[t1].kind = "tool" /\ spans[t1].parent = a
       /\ spans[t2].kind = "tool" /\ spans[t2].parent = sessionSpanOf
       /\ spans[t2].agentId = NoId

\* C10, as claimed (ByAgent parent resolution): the explicit agent_id if it
\* is a key of the registry, otherwise the current agent if one is open,
\* otherwise the session context.
C10_ResolutionAsClaimed ==
  [][\A u \in ToolIds, a \in AgentIds \cup {NoId}, i \in ToolInputs :
       PreToolUseByAgent(TRUE, u, a, i) =>
         spans'[Len(spans')].parent =
           IF a # NoId /\ MapHas(agentSpans, a)
           THEN MapGet(agentSpans, a)
           ELSE IF currentAgentId # NoId /\ MapHas(agentSpans, currentAgentId)
                THEN MapGet(agentSpans, currentAgentId)
                ELSE sessionSpanByAgent]_vars

\* C10, amended: an explicit agent_id decides alone: the parent is that
\* agent's context if the id is a key of the registry and the session
\* context if it is not, even while a current agent is open; only without
\* an explicit agent_id is the current agent used, and the session context
\* when none is open.
C10_Resolution ==
  [][\A u \in ToolIds, a \in AgentIds \cup {NoId}, i \in ToolInputs :
       PreToolUseByAgent(TRUE, u, a, i) =>
         /\ (a # NoId /\ MapHas(agentSpans, a)) =>
              spans'[Len(spans')].parent = MapGet(agentSpans, a)
         /\ (a # NoId /\ ~MapHas(agentSpans, a)) =>
              spans'[Len(spans')].parent = sessionSpanByAgent
         /\ (a = NoId /\ MapHas(agentSpans, currentAgentId)) =>
              spans'[Len(spans')].parent = MapGet(agentSpans, currentAgentId)
         /\ (a = NoId /\ ~MapHas(agentSpans, currentAgentId)) =>
              spans'[Len(spans')].parent = sessionSpanByAgent]_vars

\* A tool naming an agent that was never started, while agent 1 is current.
C10_Witness ==
  /\ variant = "ByAgent" /\ Len(spans) > 1
  /\ LET T == spans[Len(spans)]
     IN /\ T.kind = "tool" /\ T.agentId = 2 /\ T.parent = sessionSpanByAgent
        /\ currentAgentId = 1 /\ MapHas(agentSpans, 1)
        /\ \A i \in 1..Len(spans) :
              ~(spans[i].kind = "agent" /\ spans[i].key = 2)

\* C11, as claimed (flat parenting): in SingleTrace and IndividualTraces
\* every agent span and every tool span has the long-lived session span as
\* its parent, however many agents are open or closed.
C11_FlatParentingAsClaimed ==
  variant \in {"SingleTrace", "IndividualTraces"} =>
    \A i \in RegistrySpans :
       /\ spans[i].parent # 0
       /\ spans[spans[i].parent].kind = "session"

\* C11, amended: no variant is flat under a session span.  IndividualTraces
\* has no session span: every span is started without a parent context.
\* SingleTrace parents every agent span under the session span, and a tool
\* span either under the session span or under an agent span started before
\* it.
C11_Parenting ==
  /\ variant = "IndividualTraces" =>
       \A i \in 1..Len(spans) : spans[i].parent = 0
  /\ variant = "SingleTrace" =>
       \A i \in RegistrySpans :
          /\ spans[i].kind = "agent" =>
               spans[i].parent = sessionSpanSingleTrace
          /\ spans[i].kind = "tool" =>
               \/ spans[i].parent = sessionSpanSingleTrace
               \/ /\ spans[i].parent \in RegistrySpans
                  /\ spans[i].parent < i
                  /\ spans[spans[i].parent].kind = "agent"

\* SingleTrace: one agent stopped, a second one open under the session span,
\* and a tool started under the second agent rather than under the session.
C11_Witness ==
  /\ variant = "SingleTrace"
  /\ \E a1, a2, t \in RegistrySpans :
       /\ a1 < a2 /\ a2 < t
       /\ spans[a1].kind = "agent" /\ spans[a1].endedBy = "handler"
       /\ spans[a2].kind = "agent" /\ spans[a2].ends = 0
       /\ spans[a2].parent = sessionSpanSingleTrace
       /\ spans[t].kind = "tool" /\ spans[t].parent = a2

\* C12 (independent roots, ByAgent): every SubagentStart starts its agent
\* span without a parent context, whatever is open; a tool span is parented
\* under the context of its owning agent (input.agent_id, else the current
\* agent) when that agent is a key of the registry, and under the session
\* span otherwise.
C12_IndependentRoots ==
  [][/\ \A a \in AgentIds, ty \in AgentTypes :
          SubagentStartByAgent(TRUE, a, ty) =>
            /\ Len(spans') = Len(spans) + 1
            /\ spans'[Len(spans')].kind = "agent"
            /\ spans'[Len(spans')].parent = 0
     /\ \A u \in ToolIds, a \in AgentIds \cup {NoId}, i \in ToolInputs :
          PreToolUseByAgent(TRUE, u, a, i) =>
            LET owner == IF a # NoId THEN a ELSE currentAgentId
            IN spans'[Len(spans')].parent =
                 IF MapHas(agentSpans, owner)
                 THEN MapGet(agentSpans, owner)
                 ELSE sessionSpanByAgent]_vars

\* ByAgent: a second agent started as a root while the first is open, and a
\* tool parented under one of the two agents' roots.
C12_Witness ==
  /\ variant = "ByAgent"
  /\ \E a1, a2, t \in RegistrySpans :
       /\ a1 < a2 /\ a2 < t
       /\ spans[a1].kind = "agent" /\ spans[a1].parent = 0
       /\ spans[a2].kind = "agent" /\ spans[a2].parent = 0
       /\ spans[a1].key # spans[a2].key
       /\ MapHas(agentSpans, spans[a1].key)
       /\ MapHas(agentSpans, spans[a2].key)
       /\ spans[t].kind = "tool" /\ spans[t].parent = a1

\* C13: the parent recorded for a tool span when it was started never
\* changes afterwards, whatever SubagentStart, SubagentStop or other events
\* follow.
C13_ParentFixed ==
  [][\A i \in 1..Len(spans) :
       spans[i].kind = "tool" =>
         /\ Len(spans') >= i
         /\ spans'[i].kind = "tool"
         /\ spans'[i].parent = spans[i].parent]_vars

\* A tool still open whose parent agent has been stopped and removed from
\* the registry.
C13_Witness ==
  \E a, t \in RegistrySpans :
     /\ spans[t].kind = "tool" /\ spans[t].ends = 0
     /\ spans[t].parent = a
     /\ spans[a].kind = "agent" /\ spans[a].endedBy = "handler"
     /\ ~MapHas(agentSpans, spans[a].key)
     /\ MapHas(toolSpans, spans[t].key)

\* What truncateAttribute must leave of the string p it is handed, by C14:
\* p itself when p has at most 10,000 characters, otherwise p's first 10,000
\* characters followed by the marker, 10,015 characters in all.
Capped(p, stored) ==
  IF p.len > 10000
  THEN /\ stored.t = "string" /\ stored.txt = p.txt
       /\ stored.len = 10000 /\ stored.cut
       /\ length(stored) = 10015
  ELSE stored = p

SubagentStopOf(a) ==
  \/ SubagentStopSingleTrace(TRUE, a)
  \/ SubagentStopByAgent(TRUE, a)
  \/ SubagentStopIndividualTraces(TRUE, a)

\* C15: a SubagentStop for an agent_id that is a key of the registry sets
\* that entry's span to status OK, ends it and removes the id; the
\* current-agent pointer is cleared if it named this id and is otherwise
\* left as it was; the other entries, their spans, every other span and the
\* tool registry are untouched.
C15_StopPresent ==
  [][\A a \in AgentIds :
       (SubagentStopOf(a) /\ MapHas(agentSpans, a)) =>
         LET s == MapGet(agentSpans, a)
         IN /\ spans'[s].status = "OK"
            /\ spans'[s].ends = spans[s].ends + 1
            /\ ~MapHas(agentSpans', a)
            /\ currentAgentId' =
                 IF currentAgentId = a THEN NoId ELSE currentAgentId
            /\ agentSpans' = SelectSeq(agentSpans, LAMBDA e : e.k # a)
            /\ toolSpans' = toolSpans
            /\ Len(spans') = Len(spans)
            /\ \A i \in 1..Len(spans) : i # s => spans'[i] = spans[i]]_vars

\* ByAgent: agents 1 and 2 open together (a tool was started under the first
\* after the second had started); the first was stopped; the pointer still
\* names the second, which is still registered and open.
C15_Witness ==
  /\ variant = "ByAgent"
  /\ \E a1, a2, t \in RegistrySpans :
       /\ a1 < a2 /\ a2 < t
       /\ spans[a1].kind = "agent" /\ spans[a1].endedBy = "handler"
       /\ spans[a1].status = "OK" /\ ~MapHas(agentSpans, spans[a1].key)
       /\ spans[a2].kind = "agent" /\ spans[a2].ends = 0
       /\ MapHas(agentSpans, spans[a2].key)
       /\ MapGet(agentSpans, spans[a2].key) = a2
       /\ currentAgentId = spans[a2].key
       /\ spans[t].kind = "tool" /\ spans[t].parent = a1

\* A PostToolUseFailure step, in any variant, for tool_use_id u and error e.
PostToolUseFailureOf(u, e) ==
  \/ PostToolUseFailureSingleTrace(TRUE, u, e)
  \/ PostToolUseFailureByAgent(TRUE, u, e)
  \/ PostToolUseFailureIndividualTraces(TRUE, u, e)

\* C16: in every variant, a PostToolUseFailure for a tool_use_id that is a
\* key of the tool registry records the size-capped error message on the
\* span, marks tool.success false, records an exception, sets status ERROR,
\* ends the span and removes the id from the registry (stated for an error
\* field that is a text or is absent).
C16_FailureRecorded ==
  [][\A u \in ToolIds, e \in {x \in Errors : x.t \in {"string", "undefined"}} :
       (PostToolUseFailureOf(u, e) /\ MapHas(toolSpans, u)) =>
         LET s == MapGet(toolSpans, u)
         IN /\ spans'[s].error.t = "string"
            /\ length(spans'[s].error) <= 10015
            /\ spans'[s].success = "false"
            /\ spans'[s].exception
            /\ spans'[s].status = "ERROR"
            /\ spans'[s].ends = spans[s].ends + 1
            /\ ~MapHas(toolSpans', u)]_vars

\* A Notification, PermissionRequest, PreCompact, Stop, Setup, SessionStart
\* or SessionEnd step, in any variant.
PointInTimeEvent ==
  \/ SessionStartSingleTrace(TRUE) \/ SessionEndSingleTrace(TRUE)
  \/ NotificationSingleTrace(TRUE) \/ PermissionRequestSingleTrace(TRUE)
  \/ PreCompactSingleTrace(TRUE) \/ StopSingleTrace(TRUE)
  \/ SetupSingleTrace(TRUE)
  \/ SessionStartByAgent(TRUE) \/ SessionEndByAgent(TRUE)
  \/ NotificationByAgent(TRUE) \/ PermissionRequestByAgent(TRUE)
  \/ PreCompactByAgent(TRUE) \/ StopByAgent(TRUE)
  \/ SetupByAgent(TRUE)
  \/ SessionStartIndividualTraces(TRUE) \/ SessionEndIndividualTraces(TRUE)
  \/ NotificationIndividualTraces(TRUE)
  \/ PermissionRequestIndividualTraces(TRUE)
  \/ PreCompactIndividualTraces(TRUE) \/ StopIndividualTraces(TRUE)
  \/ SetupIndividualTraces(TRUE)

\* What every point-in-time event does, whatever the parent of its span:
\* one new span, ended before the handler returns, in no registry; every
\* older span, both registries and the current-agent pointer unchanged.
OneShortLivedSpan ==
  /\ Len(spans') = Len(spans) + 1
  /\ spans'[Len(spans')].kind = "hook"
  /\ spans'[Len(spans')].ends = 1
  /\ \A i \in 1..Len(spans) : spans'[i] = spans[i]
  /\ UNCHANGED <<agentSpans, toolSpans, currentAgentId>>
  /\ \A j \in 1..Len(agentSpans') : agentSpans'[j].span # Len(spans')
  /\ \A j \in 1..Len(toolSpans') : toolSpans'[j].span # Len(spans')
  /\ result' = "continue"

\* C17, as claimed (point-in-time events): in every variant the event opens
\* one span parented under the session context and ends it in the same
\* call; the span is in no registry; registries and pointer are unchanged.
C17_PointInTimeAsClaimed ==
  [][PointInTimeEvent =>
       /\ OneShortLivedSpan
       /\ spans'[Len(spans')].parent # 0
       /\ spans'[spans'[Len(spans')].parent].kind = "session"]_vars

\* C17, amended: as claimed in SingleTrace and ByAgent; in IndividualTraces,
\* which has no session span, the event's span is started without a parent
\* context, and everything else is as claimed.
C17_PointInTime ==
  [][PointInTimeEvent =>
       /\ OneShortLivedSpan
       /\ spans'[Len(spans')].parent =
            IF variant = "IndividualTraces" THEN 0 ELSE sessionSpanOf
       /\ variant # "IndividualTraces" =>
            spans'[spans'[Len(spans')].parent].kind = "session"]_vars

\* A point-in-time event has just been handled while an agent and a tool
\* are open: its span is ended and both are still registered.
C17_Witness ==
  /\ pc = "query" /\ path = "body" /\ result = "continue"
  /\ Len(spans) > 2
  /\ LET h == spans[Len(spans)]
     IN /\ h.kind = "hook" /\ h.ends = 1
        /\ h.name \notin {"hook.user_prompt_submit", "user_prompt_submit"}
  /\ \E a, t \in RegistrySpans :
       /\ spans[a].kind = "agent" /\ spans[a].ends = 0
       /\ MapHas(agentSpans, spans[a].key)
       /\ spans[t].kind = "tool" /\ spans[t].ends = 0
       /\ MapHas(toolSpans, spans[t].key)

\* A SubagentStart step, in any variant, for the agent id a.
SubagentStartOf(a) ==
  \E ty \in AgentTypes :
     \/ SubagentStartSingleTrace(TRUE, a, ty)
     \/ SubagentStartByAgent(TRUE, a, ty)
     \/ SubagentStartIndividualTraces(TRUE, a, ty)

\* An agent span that is open and is the value of no registry entry.
Leaked(sp, reg, i) ==
  /\ sp[i].kind = "agent" /\ sp[i].ends = 0
  /\ \A j \in 1..Len(reg) : reg[j].span # i

\* C18 (duplicate start): a SubagentStart for an agent_id that is already a
\* key of the registry replaces the entry with the new span and leaves the
\* earlier span open and unreferenced; and an agent span that is open and
\* unreferenced stays so through every later step, SubagentStop for its id
\* and the cleanup sweep included: it is never ended.
C18_DuplicateStartLeaks ==
  [][/\ \A a \in AgentIds :
          (SubagentStartOf(a) /\ MapHas(agentSpans, a)) =>
             /\ Len(agentSpans') = Len(agentSpans)
             /\ MapGet(agentSpans', a) = Len(spans')
             /\ Leaked(spans', agentSpans', MapGet(agentSpans, a))
     /\ \A i \in 1..Len(spans) :
          Leaked(spans, agentSpans, i) => Leaked(spans', agentSpans', i)]_vars

\* After cleanup: an agent id was started twice; the second span was ended
\* (by its stop event or by the sweep) and the first one is still open.
C18_Witness ==
  /\ pc = "cleaned" /\ "agent" \in dupStart
  /\ \E i, j \in RegistrySpans :
       /\ i < j
       /\ spans[i].kind = "agent" /\ spans[j].kind = "agent"
       /\ spans[i].key = spans[j].key
       /\ spans[i].ends = 0
       /\ spans[j].ends = 1

\* A cleanup() step, in any variant.
cleanupOf ==
  cleanupSingleTrace \/ cleanupByAgent \/ cleanupIndividualTraces

\* C19: cleanup() called with both registries empty returns without an
\* error, leaves both registries empty, and neither ends nor marks any
\* agent span or tool span.
C19_CleanupOnEmpty ==
  [][(cleanupOf /\ agentSpans = << >> /\ toolSpans = << >>) =>
       /\ agentSpans' = << >> /\ toolSpans' = << >>
       /\ result' = "returned"
       /\ Len(spans') = Len(spans)
       /\ \A i \in RegistrySpans : spans'[i] = spans[i]]_vars

\* After cleanup of a run in which the agent and the tool under it each got
\* their matching event: both closed OK by their handlers, nothing swept.
C19_Witness ==
  /\ pc = "cleaned"
  /\ \A i \in RegistrySpans : spans[i].endedBy = "handler"
  /\ \E a, t \in RegistrySpans :
       /\ spans[a].kind = "agent" /\ spans[a].status = "OK"
       /\ spans[t].kind = "tool" /\ spans[t].status = "OK"
       /\ spans[t].parent = a \/ variant = "IndividualTraces"

\* C20: cleanup() ends the span of each entry that is in the tool registry
\* or the agent registry when it is called exactly once, ends no other agent
\* or tool span (n entries, n closes), and returns.
C20_OneEndPerEntry ==
  [][cleanupOf =>
       LET entries == {toolSpans[j].span : j \in 1..Len(toolSpans)} \cup
                      {agentSpans[j].span : j \in 1..Len(agentSpans)}
       IN /\ Cardinality(entries) = Len(toolSpans) + Len(agentSpans)
          /\ \A i \in RegistrySpans :
               spans'[i].ends =
                 spans[i].ends + (IF i \in entries THEN 1 ELSE 0)
          /\ pc' = "cleaned" /\ result' = "returned"]_vars

\* A sweep that found two agents and a tool registered and ended all three.
C20_Witness ==
  /\ pc = "cleaned"
  /\ Cardinality({i \in RegistrySpans : spans[i].endedBy = "sweep"}) = 3
  /\ \E i, j \in RegistrySpans :
       /\ i # j /\ spans[i].kind = "agent" /\ spans[j].kind = "agent"
       /\ spans[i].endedBy = "sweep" /\ spans[j].endedBy = "sweep"

\* A step of main's finally block after cleanup, in any variant.
mainFinallyOf(f) ==
  \/ mainFinallySingleTrace(f)
  \/ mainFinallyByAgent(f)
  \/ mainFinallyIndividualTraces(f)

\* C21: in each entry point cleanup() runs only in the finally block, which
\* is entered once, from the query loop, whether the stream completed or
\* threw; it runs while no shutdown() has been invoked on the SDK or the
\* logger provider; the finally block gets past cleanup only by running it;
\* and shutdownTelemetry() acts only after cleanup() has returned.
C21_CleanupOnceBeforeShutdown ==
  [][/\ cleanupOf =>
          /\ pc = "finally" /\ pc' = "cleaned"
          /\ telemetry.sdkShutdowns = 0 /\ telemetry.loggerShutdowns = 0
          /\ telemetry' = telemetry
     /\ pc' = "finally" => pc = "query"
     /\ (pc' = "cleaned" /\ pc # "cleaned") => cleanupOf
     /\ pc \in {"cleaned", "done"} => pc' \in {"cleaned", "done"}
     /\ telemetry' # telemetry =>
          /\ pc = "cleaned" /\ pc' = "done"
          /\ \E f \in ShutdownFailures : mainFinallyOf(f)]_vars

\* The query threw, an orphaned span was swept by cleanup(), and then the
\* SDK was shut down.
C21_Witness ==
  /\ pc = "done" /\ QueryThrew
  /\ \E i \in RegistrySpans : spans[i].endedBy = "sweep"
  /\ telemetry.sdkShutdowns = 1 /\ telemetry.loggerShutdowns = 1

\* C22: whether shutdownTelemetry() fails or not in the finally block, main
\* resolves when the query completed and rejects (process exit code 1) when
\* the query threw; a shutdown failure is caught and logged.
C22_ShutdownFailureHarmless ==
  [][\A f \in ShutdownFailures :
       mainFinallyOf(f) =>
         /\ result' = IF QueryThrew THEN "exit 1" ELSE "main resolved"
         /\ (path' = "shutdown error logged")
              = shutdownTelemetry(telemetry, f).threw]_vars

\* The query completed, shutdown failed and was logged, main resolved.
C22_Witness ==
  /\ pc = "done" /\ ~QueryThrew
  /\ path = "shutdown error logged" /\ result = "main resolved"

\* C23 (telemetry lifecycle, telemetry enabled, calls awaited one after the
\* other): isTelemetryInitialized() is false before the first init, true
\* after every initTelemetry() that returns normally, and false after every
\* shutdownTelemetry() that settles, by resolving or by rejecting; so an
\* init after a shutdown initializes again.
C23_Lifecycle ==
  [][/\ telemetry.providers = 0 => ~isTelemetryInitialized(telemetry)
     /\ \A f \in InitFailures :
          (initTelemetryCall(TRUE, f) /\ result' = "returned") =>
             isTelemetryInitialized(telemetry')
     /\ \A f \in ShutdownFailures :
          shutdownTelemetryCall(f) => ~isTelemetryInitialized(telemetry')
    ]_vars

\* Initialized for the second time, after a shutdown that failed.
C23_Witness ==
  /\ pc = "module" /\ isTelemetryInitialized(telemetry)
  /\ path = "Telemetry initialized"
  /\ telemetry.sdks = 2 /\ telemetry.sdk = 2
  /\ telemetry.loggerShutdowns = 1 /\ telemetry.sdkShutdowns = 0

\* C24: initTelemetry() changes the module state only when telemetry is
\* enabled and not yet initialized: disabled, it leaves sdk and
\* loggerProvider as they are (null stays null) and returns; already
\* initialized, it leaves the existing sdk and loggerProvider in place,
\* creates and starts nothing, and returns without throwing.
C24_InitFrame ==
  [][\A e \in BOOLEAN, f \in InitFailures :
       initTelemetryCall(e, f) =>
         /\ telemetry' # telemetry =>
              (e /\ ~isTelemetryInitialized(telemetry))
         /\ (~e \/ isTelemetryInitialized(telemetry)) =>
              /\ telemetry' = telemetry
              /\ result' = "returned"]_vars

\* A second initTelemetry() on an initialized module was skipped: still the
\* first SDK and the first provider, and one of each ever created.
C24_Witness ==
  /\ pc = "module"
  /\ path = "Telemetry already initialized, skipping..."
  /\ result = "returned"
  /\ telemetry.sdk = 1 /\ telemetry.loggerProvider = 1
  /\ telemetry.sdks = 1 /\ telemetry.providers = 1

\* C25: shutdownTelemetry() called while sdk and loggerProvider are both
\* null (never initialized, disabled, or already shut down) resolves, calls
\* shutdown() on nothing and leaves the state uninitialized.
C25_ShutdownWhenUninitialized ==
  [][\A f \in ShutdownFailures :
       (shutdownTelemetryCall(f)
          /\ telemetry.sdk = 0 /\ telemetry.loggerProvider = 0) =>
         /\ result' = "returned"
         /\ telemetry' = telemetry
         /\ ~isTelemetryInitialized(telemetry')]_vars

\* A repeated shutdown: the SDK was shut down by an earlier call, and the
\* last call found nothing to shut down.
C25_Witness ==
  /\ pc = "module" /\ path = "nothing to shut down" /\ result = "returned"
  /\ telemetry.sdkShutdowns = 1 /\ telemetry.loggerShutdowns = 1
  /\ telemetry.sdk = 0 /\ telemetry.loggerProvider = 0

\* C26: an initTelemetry() that fails part-way (an exporter, the provider,
\* the SDK constructor or sdk.start() throws) rethrows and leaves sdk and
\* loggerProvider null: isTelemetryInitialized() is false, and a following
\* initTelemetry() is not stopped by the double-initialization guard.
C26_InitFailureResets ==
  [][\A f \in InitFailures \ {"none"} :
       (initTelemetryCall(TRUE, f) /\ ~isTelemetryInitialized(telemetry)) =>
         /\ result' = "threw"
         /\ telemetry'.sdk = 0 /\ telemetry'.loggerProvider = 0
         /\ ~isTelemetryInitialized(telemetry')
         /\ isTelemetryInitialized(initTelemetry(telemetry', TRUE, "none").t)
    ]_vars

\* Initialized at last, after an attempt that failed once the provider had
\* been created and one that failed in sdk.start().
C26_Witness ==
  /\ pc = "module" /\ isTelemetryInitialized(telemetry)
  /\ path = "Telemetry initialized"
  /\ telemetry.providers = 3 /\ telemetry.sdks = 2
  /\ telemetry.sdkShutdowns = 0 /\ telemetry.loggerShutdowns = 0

\* C27: parseExportInterval(name, value, default) returns default when value
\* is unset, empty, holds no number where parseInt looks for one, or parses
\* to an integer <= 0; 100 when the parsed integer is in 1..99; 3600000
\* when it exceeds 3600000; and the parsed integer itself when it lies in
\* 100..3600000. So the result is default or lies in 100..3600000.
C27_ParseExportInterval ==
  fn.name = "parseExportInterval" =>
    LET value == fn.args[1]
        default == fn.args[2]
        parsed == parseInt(value.chars)
    IN /\ (~value.set \/ value.chars = << >>) => fn.ret = default
       /\ (\A i \in 1..Len(value.chars) : ~IsDigit(value.chars[i])) =>
            fn.ret = default
       /\ (parsed.isNaN \/ parsed.n <= 0) => fn.ret = default
       /\ (value.set /\ ~parsed.isNaN /\ parsed.n \in 1..99) => fn.ret = 100
       /\ (value.set /\ ~parsed.isNaN /\ parsed.n > 3600000) =>
            fn.ret = 3600000
       /\ (value.set /\ ~parsed.isNaN /\ parsed.n \in 100..3600000) =>
            fn.ret = parsed.n
       /\ value = EnvString(<<"1", "0", "0">>) => fn.ret = 100
       /\ value = EnvString(<<"3", "6", "0", "0", "0", "0", "0">>) =>
            fn.ret = 3600000
       /\ value = EnvString(<<"-", "1", "0", "1">>) => fn.ret = default
       /\ value = EnvString(<<" ", "1", "0", "1", "m", "s">>) =>
            fn.ret = 101
       /\ fn.ret = default \/ fn.ret \in 100..3600000

\* " +99ms" with default 50: parsed as 99 and raised to the minimum.
C27_Witness ==
  /\ fn.name = "parseExportInterval"
  /\ fn.args = <<EnvString(<<" ", "+", "9", "9", "m", "s">>), 50>>
  /\ fn.ret = 100

\* C28: canUseTool denies, with the message "Use sub-agents for Bash
\* operations", exactly when toolName is "Bash" and options.agentID is
\* undefined; in every other case, Bash with a defined agentID included, it
\* allows, with updatedInput the input it was given.
C28_CanUseTool ==
  fn.name = "canUseTool" =>
    LET toolName == fn.args[1]
        input == fn.args[2]
        agentID == fn.args[3]
    IN /\ fn.ret.behavior \in {"deny", "allow"}
       /\ fn.ret.behavior = "deny" <=>
            (toolName = "Bash" /\ agentID = Undefined)
       /\ fn.ret.behavior = "deny" =>
            fn.ret.message = "Use sub-agents for Bash operations"
       /\ fn.ret.behavior = "allow" => fn.ret.updatedInput = input

\* Bash asked for with the empty string as agentID: defined, so allowed.
C28_Witness ==
  /\ fn.name = "canUseTool"
  /\ fn.args = <<"Bash", PlainObject, Str("", 0)>>
  /\ fn.ret.behavior = "allow"
  /\ fn.ret.updatedInput = PlainObject

\* C29: getErrorMessage(error) returns a string and never throws, whatever
\* the kind of its input.
C29_AlwaysAString ==
  fn.name = "getErrorMessage" =>
    /\ ~fn.ret.threw
    /\ fn.ret.val.t = "string"

\* The agent spans that are open: started and not ended.
OpenAgentSpans ==
  {i \in 1..Len(spans) : spans[i].kind = "agent" /\ spans[i].ends = 0}

\* C30: in SingleTrace and in ByAgent, a tool started with no agent id while
\* an agent is open is parented under the most recently opened agent that
\* is still open, and under the session span only when no agent is open
\* (stated for runs in which no agent id was started twice).
C30_MostRecentOpenAgent ==
  [][\A u \in ToolIds, i \in ToolInputs :
       ((PreToolUseSingleTrace(TRUE, u, NoId, i)
           \/ PreToolUseByAgent(TRUE, u, NoId, i))
        /\ "agent" \notin dupStart) =>
         spans'[Len(spans')].parent =
           IF OpenAgentSpans = {} THEN sessionSpanOf
           ELSE CHOOSE a \in OpenAgentSpans : \A b \in OpenAgentSpans : b <= a
    ]_vars

\* C31: when loggerProvider.shutdown() or sdk.shutdown() rejects inside
\* shutdownTelemetry(), sdk and loggerProvider are both null afterwards and
\* the error is rethrown, isTelemetryInitialized() is false, a further
\* shutdownTelemetry() does nothing, and shutdown() has been called on
\* every component that was initialized, the SDK included.
C31_ShutdownRejection ==
  [][\A f \in ShutdownFailures \ {"none"} :
       (shutdownTelemetryCall(f) /\ isTelemetryInitialized(telemetry)) =>
         /\ result' = "threw"
         /\ telemetry'.sdk = 0 /\ telemetry'.loggerProvider = 0
         /\ ~isTelemetryInitialized(telemetry')
         /\ shutdownTelemetry(telemetry', "none") = Left(telemetry', FALSE)
         /\ telemetry'.loggerShutdowns = telemetry.loggerShutdowns + 1
         /\ telemetry'.sdkShutdowns = telemetry.sdkShutdowns + 1]_vars

\* The spans held in the agent registry or the tool registry.
Registered ==
  {toolSpans[j].span : j \in 1..Len(toolSpans)} \cup
  {agentSpans[j].span : j \in 1..Len(agentSpans)}

\* C32: between handlers, and until cleanup() is called, every span held in
\* the agent registry or the tool registry is open (end() was never called
\* on it), and a span that a stop, complete or fail handler ended is in no
\* registry.
C32_RegistryOpen ==
  /\ \A i \in Registered : spans[i].ends = 0 /\ spans[i].endedBy = "none"
  /\ \A i \in 1..Len(spans) :
       spans[i].endedBy = "handler" => i \notin Registered

\* A tool span still registered and open although the agent span it was
\* started under has been ended by SubagentStop and removed.
C32_Witness ==
  /\ pc = "query"
  /\ \E a, t \in 1..Len(spans) :
       /\ spans[a].kind = "agent" /\ spans[a].endedBy = "handler"
       /\ a \notin Registered
       /\ spans[t].kind = "tool" /\ spans[t].parent = a
       /\ t \in Registered /\ spans[t].ends = 0

\* C33 (ByAgent): in every reachable state, the state after cleanup()
\* included, currentAgentId is undefined or a key of the agentTraces
\* registry.
C33_PointerRegistered ==
  (variant = "ByAgent" /\ currentAgentId # NoId) =>
    MapHas(agentSpans, currentAgentId)

\* A PostToolUse step, in any variant.
PostToolUseOf(u, r) ==
  \/ PostToolUseSingleTrace(TRUE, u, r)
  \/ PostToolUseByAgent(TRUE, u, r)
  \/ PostToolUseIndividualTraces(TRUE, u, r)

\* C34: SubagentStop leaves the tool registry and every tool span as they
\* were, the tools started under the stopped agent included; PostToolUse
\* and PostToolUseFailure leave the agent registry, every agent span and
\* the current-agent pointer as they were.
C34_StopAndCompleteFrames ==
  [][/\ \A a \in AgentIds :
          SubagentStopOf(a) =>
            /\ toolSpans' = toolSpans
            /\ \A i \in 1..Len(spans) :
                 spans[i].kind = "tool" => spans'[i] = spans[i]
     /\ \A u \in ToolIds :
          ((\E r \in ToolResponses : PostToolUseOf(u, r))
             \/ (\E e \in Errors : PostToolUseFailureOf(u, e))) =>
            /\ agentSpans' = agentSpans
            /\ currentAgentId' = currentAgentId
            /\ \A i \in 1..Len(spans) :
                 spans[i].kind = "agent" => spans'[i] = spans[i]]_vars

\* A tool span that outlived its parent: the agent was ended by its
\* SubagentStop, the tool started under it stayed open and registered until
\* the sweep ended it.
C34_Witness ==
  /\ pc = "cleaned"
  /\ \E a, t \in 1..Len(spans) :
       /\ spans[a].kind = "agent" /\ spans[a].endedBy = "handler"
       /\ spans[t].kind = "tool" /\ spans[t].parent = a
       /\ spans[t].endedBy = "sweep" /\ spans[t].ends = 1

\* C35: during cleanup() every registered tool span is ended before any
\* registered agent span, the session span (in the variant whose cleanup()
\* ends it) after all of them, and so no span is ended by cleanup() before
\* a registered span that was started under it.
C35_SweepOrder ==
  [][cleanupOf =>
       LET tools == {toolSpans[j].span : j \in 1..Len(toolSpans)}
           agents == {agentSpans[j].span : j \in 1..Len(agentSpans)}
           ended == {i \in 1..Len(spans) : spans'[i].sweepOrder > 0}
       IN /\ tools \cup agents \subseteq ended
          /\ \A i, j \in ended :
               i # j => spans'[i].sweepOrder # spans'[j].sweepOrder
          /\ \A t \in tools, a \in agents :
               spans'[t].sweepOrder < spans'[a].sweepOrder
          /\ variant = "SingleTrace" =>
               /\ sessionSpanSingleTrace \in ended
               /\ \A i \in tools \cup agents :
                    spans'[i].sweepOrder <
                      spans'[sessionSpanSingleTrace].sweepOrder
          /\ \A p \in ended, c \in tools \cup agents :
               spans[c].parent = p =>
                 spans'[c].sweepOrder < spans'[p].sweepOrder]_vars

\* A sweep that ended a tool first, then the agent it was started under,
\* then the session span.
C35_Witness ==
  /\ pc = "cleaned" /\ variant = "SingleTrace"
  /\ \E a, t \in 1..Len(spans) :
       /\ spans[t].kind = "tool" /\ spans[t].parent = a
       /\ spans[a].kind = "agent"
       /\ spans[t].sweepOrder = 1
       /\ spans[a].sweepOrder = 2
       /\ spans[sessionSpanSingleTrace].sweepOrder = 3

\* The spans as one more cleanup() call would leave them.
sweptAgain ==
  CASE variant = "SingleTrace" ->
         sweptSingleTrace(spans', toolSpans', agentSpans')
    [] variant = "ByAgent" -> sweptByAgent(spans', toolSpans', agentSpans')
    [] OTHER -> sweptIndividualTraces(spans', toolSpans', agentSpans')

\* C36: cleanup() is idempotent: a second call right after the first calls
\* setStatus() and end() on no span, the session span included, and leaves
\* the tracker as the first call left it.
C36_CleanupIdempotent ==
  [][cleanupOf =>
       /\ sweptAgain = spans'
       /\ afterSweep(toolSpans', forOfDeleting(toolSpans')) = toolSpans'
       /\ afterSweep(agentSpans', forOfDeleting(agentSpans')) = agentSpans'
    ]_vars

C38_ConcurrentShutdown ==
  /\ telemetry.loggerShutdowns <= 1
  /\ telemetry.sdkShutdowns <= 1
  /\ (\A c \in Calls : pc[c] \in {"resolved", "rejected"}) =>
       ~isTelemetryInitialized(telemetry)

====
